---------------------------- MODULE Spec2Model ----------------------------
(***************************************************************************)
(* A model of the rustberrypi kernel core: the pending-IRQ iterator, the   *)
(* handler tables of the peripheral and local interrupt controllers, and   *)
(* the round-robin scheduler with its sleep and exit system calls.         *)
(*                                                                         *)
(* Encodings.  A u64 bitmask is the set of the positions of its 1-bits     *)
(* (a subset of 0..63).  Option<T> is None or a value of T.  Time is the   *)
(* free-running system-timer counter in microseconds.                      *)
(***************************************************************************)
EXTENDS Integers, Sequences, FiniteSets, TLC

\* Option<T>: None, or Some(x) with x its first element
None == <<>>
Some(x) == <<x>>
Unwrap(o) == o[1]

(***************************************************************************)
(* Program constants.                                                      *)
(***************************************************************************)
MAX_LOCAL_IRQ_NUMBER == 11
MAX_PERIPHERAL_IRQ_NUMBER == 63
NUM_PERIPHERAL_IRQS == MAX_PERIPHERAL_IRQ_NUMBER + 1
NUM_LOCAL_IRQS == MAX_LOCAL_IRQ_NUMBER + 1
U64_BITS == 64
USIZE_BYTES == 8

(***************************************************************************)
(* Bounds of the model.                                                    *)
(***************************************************************************)
\* cpu.rs: the boot core; the cores followed are it and one secondary core
BOOT_CORE_ID == 0
Cores == {BOOT_CORE_ID, BOOT_CORE_ID + 1}

\* bit positions the pending masks are drawn from: both ends of the word,
\* both sides of the 32-bit boundary, and the mask 0xA000_0000_0000_0005
TestBits == {0, 2, 31, 32, 61, 63}
\* IRQ numbers handed to register_handler
TestPeriphIRQs == {1, 57}
TestLocalIRQs == {1, 8}
\* IRQ descriptors (two distinct drivers)
Descs == {"d1", "d2"}

\* add_task calls
MaxTasks == 2
\* the counter is followed for MaxTimeMs milliseconds
MaxTimeMs == 2
\* arguments of sleep, in milliseconds
MaxSleep == 1
\* the x7 a task holds when it traps
RegVals == {1}
\* timer ticks counted in the fairness runs
MaxTicks == 6

VARIABLES
    \* PendingIRQs
    mask0,        \* the bitmask PendingIRQs::new was called with
    bitmask,      \* PendingIRQs.bitmask
    yielded,      \* the items next() has returned so far, in order
    iterDone,     \* next() has returned None
    \* interrupt controller
    handler_table,   \* PeripheralIC.handler_table
    handler_tables,  \* LocalIC.handler_tables, one table per core
    lastReg,         \* the last register_handler call and its result
    \* memory layout and translation tables
    ro_start,     \* the linker symbol __ro_start
    ro_end,       \* the linker symbol __ro_end
    bss_end,      \* the linker symbol __bss_end
    lvl2,         \* TABLES.lvl2 (<<>> where the tables are not followed)
    lvl3,         \* TABLES.lvl3 (<<>> where the tables are not followed)
    mmu_pc,       \* where MemoryManagementUnit::init is, and its result
    \* zero_volatile
    mem,          \* the usize words of a memory region, by address
    zv_start,     \* range.start
    zv_end,       \* range.end
    zv_ptr,       \* ptr
    zv_pc,        \* "loop" while zero_volatile runs, "done" when it returned
    written,      \* the addresses write_volatile was called with, in order
    \* boot core, kinit
    el0,          \* the exception level the boot core started in
    el,           \* CurrentEL.EL
    boot_pc,      \* where the boot core is in kinit
    sp_el,        \* SP_EL1, SP_EL2, SP_EL3: "boot" or "unknown"
    daif,         \* PSTATE.{D,A,I,F} are all masked
    spsel,        \* PSTATE.SP
    erets,        \* per function, how often its eret was executed
    last_eret,    \* the last exception return: from, to, SPSR
    \* kernel_init on the boot core
    ki_pc,        \* where kernel_init is ("none" where it is not followed)
    ki_irq,       \* where the IRQ handler that interrupted it is
    ki_masked,    \* PSTATE.I of the boot core during kernel_init
    tmr,          \* compare channel 1 of the system timer: off, armed, pending
    tmr_enabled,  \* the system timer's IRQ is enabled in the controller
    sched_some,   \* SCHEDULER holds Some(Scheduler)
    tbl_lock,     \* the RwLock of the peripheral handler table
    ki_panic,     \* the message of the panic that stopped the kernel, if any
    connected,    \* the IRQ numbers ConnectInterrupt was called with
    wr_log,       \* the write-lock acquisitions: IRQ number, PSTATE.I, caller
    \* one IRQ exception, from the vector's call of handle_pending_irqs on
    dp_pc,        \* where the dispatch is ("none" where it is not followed)
    dp_core,      \* the core that took the exception
    dp_cur,       \* the handler call in progress: controller, IRQ, descriptor
    dp_fiq,       \* PSTATE.F of that core (TRUE: masked)
    dp_calls,     \* the handler calls made, in order
    dp_log,       \* the IRQ numbers logged by info!, in order
    dp_snap,      \* per controller, the values get_pending returned
    dp_panic,     \* the panic that stopped the dispatch: message, IRQ number
    dp_pending,   \* the pending registers: PENDING_2:1, core_irq_source
    \* secondary cores
    bc_pc,        \* where the boot core is ("none" where it is not followed)
    bc_i,         \* core_index in the loops of wake_up_secondary_cores
    sc_pc,        \* per secondary core, where it is
    slots,        \* per secondary core, the usize in its spin-table slot
    event,        \* per secondary core, its event register
    slot_writes,  \* the writes to the spin table, in order: core, address, value
    bss_zeroed,   \* zero_bss has returned
    tables_ready, \* mmu().init() has populated TABLES
    setup_log,    \* per core_setup call of a secondary core, what it found
    \* system timer
    t_pc,         \* init, run, spin (in timer_tick), panic; "none": not followed
    clo,          \* the counter's low word CLO
    clo0,         \* CLO as SystemTimerInner::init read it
    cur_val,      \* SystemTimerInner.cur_val
    c1,           \* the compare register C1
    m1,           \* CS.M1, the match flag of channel 1
    t_k,          \* the timer interrupts handled
    t_ops,        \* what the last handler call did, in order
    ovf_checks,   \* the build checks arithmetic overflow
    t_steps,      \* the clock steps taken
    \* peripheral controller, write-only registers
    fq_pc,        \* per core, where it is in enable, disable or enable_fiq; "none": not followed
    fq_int,       \* per core, the IRQ number of its call
    fq_op,        \* per core, the function it called
    fq_calls,     \* per core, the calls made
    wo_regs,      \* the holder of the wo_regs mutex
    wo_log,       \* per core, the register writes of its current call
    irq_enabled,  \* the IRQs whose enable bit is set
    FIQ_CONTROL,  \* the register's last written value
    fq_caller,    \* the core that calls enable_fiq
    \* scheduler
    processes,    \* Scheduler.processes, the ready queue (front first)
    last_id,      \* Scheduler.last_id
    lock,         \* the core holding the SCHEDULER mutex, or None
    freed,        \* per pid, how often its stack was deallocated to the heap
    now,          \* the system-timer counter CHI:CLO, in microseconds
    \* cores
    online,       \* the cores that take timer interrupts and run tasks
    pc,           \* per core, where it is in the kernel
    ec,           \* per core, the exception frame of the thread it runs
    irqMasked,    \* per core, PSTATE.I
    update_state, \* per core, the TaskState handed to switch
    svc_ret,      \* per core, the last Err that syscall::handle returned
    ttbr1,        \* per core, TTBR1_EL1 (None where it is not followed)
    \* history
    lastFlush,    \* per core, the last flush_tlb call of deschedule and what it did
    installed,    \* per core, what schedule() installed, until the core resumes
    added,        \* the values add_task returned, in call order
    exited,       \* the pids Scheduler::exit_task has run for
    nticks,       \* timer ticks delivered (counted in the fairness runs)
    slices        \* per pid, how often schedule() installed it

iterVars == <<mask0, bitmask, yielded, iterDone>>
regVars == <<handler_table, handler_tables, lastReg>>
memVars == <<ro_start, ro_end, bss_end, lvl2, lvl3, mmu_pc>>
zeroVars == <<mem, zv_start, zv_end, zv_ptr, zv_pc, written>>
elVars == <<el0, el, boot_pc, sp_el, daif, spsel, erets, last_eret>>
bootVars == <<memVars, zeroVars, elVars>>
kinitVars == <<ki_pc, ki_irq, ki_masked, tmr, tmr_enabled, sched_some, tbl_lock,
               ki_panic, connected, wr_log>>
dispVars == <<dp_pc, dp_core, dp_cur, dp_fiq, dp_calls, dp_log, dp_snap, dp_panic,
              dp_pending>>
smpVars == <<bc_pc, bc_i, sc_pc, slots, event, slot_writes, bss_zeroed, tables_ready,
             setup_log>>
timerVars == <<t_pc, clo, clo0, cur_val, c1, m1, t_k, t_ops, ovf_checks, t_steps>>
fiqVars == <<fq_pc, fq_int, fq_op, fq_calls, wo_regs, wo_log, irq_enabled, FIQ_CONTROL,
             fq_caller>>
devVars == <<dispVars, smpVars, timerVars, fiqVars>>
queueVars == <<processes, last_id, freed>>
coreVars == <<pc, ec, irqMasked, update_state>>
svcVars == <<svc_ret>>
tlbVars == <<ttbr1, lastFlush>>
histVars == <<installed, added, exited, nticks, slices>>
schedVars == <<queueVars, lock, now, online, coreVars, tlbVars, histVars>>
vars == <<iterVars, regVars, bootVars, kinitVars, devVars, svcVars, schedVars>>

(***************************************************************************)
(* PendingIRQs (bsp/device_driver/bcm/interrupt_controller.rs)             *)
(***************************************************************************)
SetMin(S) == CHOOSE x \in S : \A y \in S : x <= y

\* the number of leading zero bits subtracted from 63: the highest set bit
cttzHigh(bm) == IF bm = {} THEN U64_BITS ELSE CHOOSE x \in bm : \A y \in bm : x >= y

\* core::intrinsics::cttz on a u64: the number of trailing zero bits, 64 for 0
cttz(bm) == IF bm = {} THEN U64_BITS ELSE SetMin(bm)

\* a clear that computes the bit in 32 bits: 1u32 << (next % 32)
ClearBit32(bm, next) == bm \ {next % 32}

\* self.bitmask &= !(1 << next), the literal 1 being a u64
ClearBit(bm, next) == bm \ {next}

PendingIRQsNew(m) ==
    /\ mask0 = m
    /\ bitmask = m
    /\ yielded = <<>>
    /\ iterDone = FALSE

\* one call of PendingIRQs::next
IterNext ==
    /\ ~iterDone
    /\ LET next == cttz(bitmask) IN
         IF next = U64_BITS
         THEN /\ iterDone' = TRUE
              /\ UNCHANGED <<mask0, bitmask, yielded>>
         ELSE /\ bitmask' = ClearBit(bitmask, next)
              /\ yielded' = Append(yielded, next)
              /\ UNCHANGED <<mask0, iterDone>>
    /\ UNCHANGED <<regVars, bootVars, kinitVars, devVars, svcVars, schedVars>>

(***************************************************************************)
(* Handler registration (peripheral_ic.rs, local_ic.rs)                    *)
(***************************************************************************)
NoReg == [ctl |-> "none", core |-> 0, n |-> 0, d |-> "d1", ok |-> TRUE, prev |-> None]

InitReg ==
    /\ handler_table = [n \in 0 .. MAX_PERIPHERAL_IRQ_NUMBER |-> None]
    /\ handler_tables = [c \in Cores |-> [n \in 0 .. MAX_LOCAL_IRQ_NUMBER |-> None]]
    /\ lastReg = NoReg

\* PeripheralIC::register_handler, called on core c
PeripheralRegisterHandler(c, n, d) ==
    /\ IF handler_table[n] # None
       THEN UNCHANGED handler_table
       ELSE handler_table' = [handler_table EXCEPT ![n] = Some(d)]
    /\ lastReg' = [ctl |-> "periph", core |-> c, n |-> n, d |-> d,
                   ok |-> (handler_table[n] = None), prev |-> handler_table[n]]
    /\ UNCHANGED handler_tables

\* LocalIC::register_handler, called on core c: the occupancy test reads
\* table 0, the store goes to the table of the calling core
LocalRegisterHandler(c, n, d) ==
    /\ IF handler_tables[0][n] # None
       THEN UNCHANGED handler_tables
       ELSE handler_tables' = [handler_tables EXCEPT ![c][n] = Some(d)]
    /\ lastReg' = [ctl |-> "local", core |-> c, n |-> n, d |-> d,
                   ok |-> (handler_tables[0][n] = None), prev |-> handler_tables[c][n]]
    /\ UNCHANGED handler_table

\* InterruptController::register_handler: dispatch on the IRQNumber variant
RegisterHandler ==
    /\ \E c \in Cores, d \in Descs :
          \/ \E n \in TestPeriphIRQs : PeripheralRegisterHandler(c, n, d)
          \/ \E n \in TestLocalIRQs : LocalRegisterHandler(c, n, d)
    /\ UNCHANGED <<iterVars, bootVars, kinitVars, devVars, svcVars, schedVars>>

\* a lookup that finds a descriptor in every slot
LookupAny(n) == Some("d1")

\* the descriptor a dispatch of IRQ n on core c looks up
PeripheralLookup(n) == handler_table[n]
LocalLookup(c, n) == handler_tables[c][n]

(***************************************************************************)
(* Dispatch (interrupt_controller.rs, peripheral_ic.rs, local_ic.rs)       *)
(***************************************************************************)
\* bits of the pending registers that the dispatch is followed for
DispPeriphBits == {1, 32, 57}
DispLocalBits == {1, 8, 11}
GPU_IRQ == 8

PeriphNoHandler == "Peripheral Interrupt Controller: No handler registered for IRQ"
LocalNoHandler == "Local Interrupt Controller: No handler registered for IRQ"
HandlerErr == "Error handling IRQ"

\* res: "run" while the handler executes, then "ok" or "err"
NoCall == [ctl |-> "none", n |-> 0, d |-> "d1", res |-> "ok"]

\* exception::asynchronous::local_fiq_unmask / local_fiq_mask: PSTATE.F
local_fiq_unmask(masked) == FALSE
local_fiq_mask(masked) == TRUE

\* no IRQ exception is followed
InitDispDone ==
    /\ dp_pc = "none"
    /\ dp_core = BOOT_CORE_ID
    /\ dp_cur = NoCall
    /\ dp_fiq = TRUE
    /\ dp_calls = <<>>
    /\ dp_log = <<>>
    /\ dp_snap = [periph |-> <<>>, local |-> <<>>]
    /\ dp_panic = None
    /\ dp_pending = [periph |-> {}, local |-> {}]

\* core c is about to take an IRQ exception, the controllers' pending
\* registers holding any of the followed bits
InitDisp(c) ==
    /\ dp_pc = "idle"
    /\ dp_core = c
    /\ dp_cur = NoCall
    /\ dp_fiq = TRUE
    /\ dp_calls = <<>>
    /\ dp_log = <<>>
    /\ dp_snap = [periph |-> <<>>, local |-> <<>>]
    /\ dp_panic = None
    /\ \E p \in SUBSET DispPeriphBits, l \in SUBSET DispLocalBits :
          dp_pending = [periph |-> p, local |-> l]

dispOther == <<bootVars, kinitVars, smpVars, timerVars, fiqVars, svcVars, schedVars>>

\* the IRQ vector calls InterruptController::handle_pending_irqs on dp_core,
\* PSTATE.F set by the exception entry: the peripheral controller is served
\* by core 0 only
DpEntry ==
    /\ dp_pc = "idle"
    /\ dp_pc' = IF dp_core = BOOT_CORE_ID THEN "periph_start" ELSE "local_start"
    /\ UNCHANGED <<dp_core, dp_cur, dp_fiq, dp_calls, dp_log, dp_snap, dp_panic, dp_pending,
                   iterVars, regVars, dispOther>>

\* get_pending: PENDING_2:PENDING_1, or core_irq_source of the core
DpGetPending ==
    /\ dp_pc \in {"periph_start", "local_start"}
    /\ LET ctl == IF dp_pc = "periph_start" THEN "periph" ELSE "local" IN
         /\ mask0' = dp_pending[ctl]
         /\ bitmask' = dp_pending[ctl]
         /\ yielded' = <<>>
         /\ iterDone' = FALSE
         /\ dp_snap' = [dp_snap EXCEPT ![ctl] = Append(@, dp_pending[ctl])]
         /\ dp_pc' = ctl
    /\ UNCHANGED <<dp_core, dp_cur, dp_fiq, dp_calls, dp_log, dp_panic, dp_pending,
                   regVars, dispOther>>

\* one round of the for loop of PeripheralIC::handle_pending_irqs
DpPeriphNext ==
    /\ dp_pc = "periph"
    /\ LET next == cttz(bitmask) IN
         IF next = U64_BITS
         THEN /\ iterDone' = TRUE
              /\ dp_pc' = "local_start"
              /\ UNCHANGED <<mask0, bitmask, yielded, dp_cur, dp_fiq, dp_calls,
                             dp_panic>>
         ELSE /\ bitmask' = ClearBit(bitmask, next)
              /\ yielded' = Append(yielded, next)
              /\ UNCHANGED <<mask0, iterDone>>
              /\ IF PeripheralLookup(next) = None
                 THEN /\ dp_pc' = "panic"
                      /\ dp_panic' = Some([msg |-> PeriphNoHandler, n |-> next])
                      /\ UNCHANGED <<dp_cur, dp_fiq, dp_calls>>
                 ELSE /\ dp_fiq' = local_fiq_unmask(dp_fiq)
                      /\ dp_cur' = [ctl |-> "periph", n |-> next,
                                    d |-> Unwrap(PeripheralLookup(next)), res |-> "run"]
                      /\ dp_calls' = Append(dp_calls, [ctl |-> "periph", n |-> next,
                                             d |-> Unwrap(PeripheralLookup(next))])
                      /\ dp_pc' = "handler"
                      /\ UNCHANGED dp_panic
    /\ UNCHANGED <<dp_core, dp_log, dp_snap, dp_pending, regVars, dispOther>>

\* one round of the for loop of LocalIC::handle_pending_irqs
DpLocalNext ==
    /\ dp_pc = "local"
    /\ LET next == cttz(bitmask) IN
         IF next = U64_BITS
         THEN /\ iterDone' = TRUE
              /\ dp_pc' = "done"
              /\ UNCHANGED <<mask0, bitmask, yielded, dp_cur, dp_calls, dp_log,
                             dp_panic>>
         ELSE /\ bitmask' = ClearBit(bitmask, next)
              /\ yielded' = Append(yielded, next)
              /\ UNCHANGED <<mask0, iterDone>>
              /\ IF LocalLookup(dp_core, next) = None
                 THEN IF next = GPU_IRQ
                      THEN /\ dp_log' = Append(dp_log, next)
                           /\ UNCHANGED <<dp_pc, dp_cur, dp_calls, dp_panic>>
                      ELSE /\ dp_pc' = "panic"
                           /\ dp_panic' = Some([msg |-> LocalNoHandler, n |-> next])
                           /\ UNCHANGED <<dp_cur, dp_calls, dp_log>>
                 ELSE /\ dp_cur' = [ctl |-> "local", n |-> next,
                                    d |-> Unwrap(LocalLookup(dp_core, next)), res |-> "run"]
                      /\ dp_calls' = Append(dp_calls, [ctl |-> "local", n |-> next,
                                             d |-> Unwrap(LocalLookup(dp_core, next))])
                      /\ dp_pc' = "handler"
                      /\ UNCHANGED <<dp_log, dp_panic>>
    /\ UNCHANGED <<dp_core, dp_fiq, dp_snap, dp_pending, regVars, dispOther>>

\* a return from the handler with no local_fiq_mask after it
DpHandlerReturnNoMask(ok) ==
    /\ dp_pc = "handler"
    /\ dp_cur' = [dp_cur EXCEPT !.res = IF ok THEN "ok" ELSE "err"]
    /\ dp_pc' = IF ok THEN dp_cur.ctl ELSE "panic"
    /\ dp_panic' = IF ok THEN dp_panic ELSE Some([msg |-> HandlerErr, n |-> dp_cur.n])
    /\ UNCHANGED <<dp_fiq, dp_core, dp_calls, dp_log, dp_snap, dp_pending, iterVars,
                   regVars, dispOther>>

\* descriptor.handler.handle(e) returns, .expect("Error handling IRQ");
\* after a peripheral handler local_fiq_mask follows
DpHandlerReturn(ok) ==
    /\ dp_pc = "handler"
    /\ dp_cur' = [dp_cur EXCEPT !.res = IF ok THEN "ok" ELSE "err"]
    /\ IF ok
       THEN /\ dp_pc' = dp_cur.ctl
            /\ dp_fiq' = IF dp_cur.ctl = "periph" THEN local_fiq_mask(dp_fiq) ELSE dp_fiq
            /\ UNCHANGED dp_panic
       ELSE /\ dp_pc' = "panic"
            /\ dp_panic' = Some([msg |-> HandlerErr, n |-> dp_cur.n])
            /\ UNCHANGED dp_fiq
    /\ UNCHANGED <<dp_core, dp_calls, dp_log, dp_snap, dp_pending, iterVars, regVars,
                   dispOther>>

\* a device asserts an interrupt line while a handler runs
DpLine(ctl, n) ==
    /\ dp_pc = "handler"
    /\ n \notin dp_pending[ctl]
    /\ dp_pending' = [dp_pending EXCEPT ![ctl] = @ \cup {n}]
    /\ UNCHANGED <<dp_pc, dp_core, dp_cur, dp_fiq, dp_calls, dp_log, dp_snap, dp_panic,
                   iterVars, regVars, dispOther>>

(***************************************************************************)
(* Secondary cores (cpu.rs: _start, start2, kmain2,                        *)
(* wake_up_secondary_cores)                                                *)
(***************************************************************************)
NUM_CORES == 4
SecCores == 1 .. (NUM_CORES - 1)

\* the address of start2 as a usize: some address in the kernel's text
start2 == 2^19 + 2^11

\* the boot core's spin-table base: 0xd8 as *mut usize
SPINNING_BASE == 216

\* an add that counts bytes, not usize elements
SpinSlotBytes(core_index) == SPINNING_BASE + core_index

\* SPINNING_BASE.add(core_index) on a *mut usize, as a byte address
SpinSlot(core_index) == SPINNING_BASE + USIZE_BYTES * core_index

\* the core whose slot a byte address is
CoreOfSlot(addr) == CHOOSE c \in 0 .. (NUM_CORES - 1) : SpinSlot(c) = addr

\* the secondary cores are not followed
InitSmpDone ==
    /\ bc_pc = "none"
    /\ bc_i = 0
    /\ sc_pc = [c \in SecCores |-> "none"]
    /\ slots = [c \in SecCores |-> 0]
    /\ event = [c \in SecCores |-> FALSE]
    /\ slot_writes = <<>>
    /\ bss_zeroed = TRUE
    /\ tables_ready = TRUE
    /\ setup_log = {}

\* reset: the boot core enters _start; each secondary core either enters
\* _start with it or waits in the firmware's loop on its spin-table slot
InitSmp ==
    /\ bc_pc = "zero_bss"
    /\ bc_i = 0
    /\ sc_pc \in [SecCores -> {"_start", "parked"}]
    /\ slots = [c \in SecCores |-> 0]
    /\ event \in [SecCores -> BOOLEAN]
    /\ slot_writes = <<>>
    /\ bss_zeroed = FALSE
    /\ tables_ready = FALSE
    /\ setup_log = {}

\* the boot core is about to call wake_up_secondary_cores, the secondary
\* cores waiting in the firmware's loop
InitWake ==
    /\ bc_pc = "wake_write"
    /\ bc_i = 1
    /\ sc_pc = [c \in SecCores |-> "parked"]
    /\ slots = [c \in SecCores |-> 0]
    /\ event \in [SecCores -> BOOLEAN]
    /\ slot_writes = <<>>
    /\ bss_zeroed = TRUE
    /\ tables_ready = TRUE
    /\ setup_log = {}

smpOther == <<iterVars, regVars, bootVars, kinitVars, dispVars, timerVars, fiqVars, svcVars,
             schedVars>>

\* kinit: zero_bss
BcZeroBss ==
    /\ bc_pc = "zero_bss"
    /\ bss_zeroed' = TRUE
    /\ bc_pc' = "el"
    /\ UNCHANGED <<bc_i, sc_pc, slots, event, slot_writes, tables_ready, setup_log,
                   smpOther>>

\* kinit: el3_to_el2, el2_to_el1, then kernel_init
BcDescend ==
    /\ bc_pc = "el"
    /\ bc_pc' = "mmu_init"
    /\ UNCHANGED <<bc_i, sc_pc, slots, event, slot_writes, bss_zeroed, tables_ready,
                   setup_log, smpOther>>

\* kernel_init: mmu().init() populates TABLES (main.rs:22); the call of
\* wake_up_secondary_cores at main.rs:27 is commented out
BcMmuInit ==
    /\ bc_pc = "mmu_init"
    /\ tables_ready' = TRUE
    /\ bc_pc' = "core_setup"
    /\ UNCHANGED <<bc_i, sc_pc, slots, event, slot_writes, bss_zeroed, setup_log,
                   smpOther>>

\* kernel_init: memory::mmu::core_setup() (main.rs:29), then the rest
BcCoreSetup ==
    /\ bc_pc = "core_setup"
    /\ bc_pc' = "kernel"
    /\ UNCHANGED <<bc_i, sc_pc, slots, event, slot_writes, bss_zeroed, tables_ready,
                   setup_log, smpOther>>

\* wake_up_secondary_cores, first loop: write_volatile(core_spin_ptr, start2)
BcWakeWrite ==
    /\ bc_pc = "wake_write"
    /\ slots' = [slots EXCEPT ![CoreOfSlot(SpinSlot(bc_i))] = start2]
    /\ slot_writes' = Append(slot_writes, [by |-> BOOT_CORE_ID, addr |-> SpinSlot(bc_i),
                                           val |-> start2])
    /\ IF bc_i < NUM_CORES - 1
       THEN /\ bc_i' = bc_i + 1
            /\ UNCHANGED bc_pc
       ELSE /\ bc_i' = 0
            /\ bc_pc' = "wake_sev"
    /\ UNCHANGED <<sc_pc, event, bss_zeroed, tables_ready, setup_log, smpOther>>

\* asm::sev(): the event register of every core is set
BcWakeSev ==
    /\ bc_pc = "wake_sev"
    /\ event' = [c \in SecCores |-> TRUE]
    /\ bc_pc' = "wake_wait"
    /\ bc_i' = 1
    /\ UNCHANGED <<sc_pc, slots, slot_writes, bss_zeroed, tables_ready, setup_log,
                   smpOther>>

\* second loop: while read_volatile(core_spin_ptr) != 0 {}; each step is a
\* read that found 0
BcWakeWait ==
    /\ bc_pc = "wake_wait"
    /\ slots[CoreOfSlot(SpinSlot(bc_i))] = 0
    /\ IF bc_i < NUM_CORES - 1
       THEN /\ bc_i' = bc_i + 1
            /\ UNCHANGED bc_pc
       ELSE /\ bc_i' = 0
            /\ bc_pc' = "wake_done"
    /\ UNCHANGED <<sc_pc, slots, event, slot_writes, bss_zeroed, tables_ready,
                   setup_log, smpOther>>

\* the firmware's loop of a waiting core: wfe, read the slot, branch to the
\* address found there unless it is 0
ScParked(c) ==
    /\ sc_pc[c] = "parked"
    /\ event[c]
    /\ IF slots[c] = 0
       THEN /\ event' = [event EXCEPT ![c] = FALSE]
            /\ UNCHANGED sc_pc
       ELSE /\ sc_pc' = [sc_pc EXCEPT ![c] = "start2"]
            /\ UNCHANGED event
    /\ UNCHANGED <<bc_pc, bc_i, slots, slot_writes, bss_zeroed, tables_ready, setup_log,
                   smpOther>>

\* _start on a core that is not the boot core: start2()
ScStart(c) ==
    /\ sc_pc[c] = "_start"
    /\ sc_pc' = [sc_pc EXCEPT ![c] = "start2"]
    /\ UNCHANGED <<bc_pc, bc_i, slots, event, slot_writes, bss_zeroed, tables_ready,
                   setup_log, smpOther>>

\* start2: the core's stack, el3_to_el2, el2_to_el1, kmain2()
ScStart2(c) ==
    /\ sc_pc[c] = "start2"
    /\ sc_pc' = [sc_pc EXCEPT ![c] = "kmain2"]
    /\ UNCHANGED <<bc_pc, bc_i, slots, event, slot_writes, bss_zeroed, tables_ready,
                   setup_log, smpOther>>

\* kmain2: write_volatile(SPINNING_BASE.add(core_id), 0)
ScZeroSlot(c) ==
    /\ sc_pc[c] = "kmain2"
    /\ slots' = [slots EXCEPT ![CoreOfSlot(SpinSlot(c))] = 0]
    /\ slot_writes' = Append(slot_writes, [by |-> c, addr |-> SpinSlot(c), val |-> 0])
    /\ sc_pc' = [sc_pc EXCEPT ![c] = "core_setup"]
    /\ UNCHANGED <<bc_pc, bc_i, event, bss_zeroed, tables_ready, setup_log, smpOther>>

\* kmain2: memory::mmu::core_setup(), TTBR0/TTBR1 <- TABLES.lvl2, MMU and
\* caches on; then the wfe loop
ScCoreSetup(c) ==
    /\ sc_pc[c] = "core_setup"
    /\ setup_log' = setup_log \cup {[core |-> c, bss |-> bss_zeroed, tables |-> tables_ready]}
    /\ sc_pc' = [sc_pc EXCEPT ![c] = "wfe"]
    /\ UNCHANGED <<bc_pc, bc_i, slots, event, slot_writes, bss_zeroed, tables_ready,
                   smpOther>>

(***************************************************************************)
(* Tasks (process.rs)                                                      *)
(***************************************************************************)
\* pids that add_task can hand out within the bound: MaxTasks tasks, and one
\* more where the queue is followed through the periods of the timer
Pids == 2 .. (MaxTasks + 2)

\* TaskState; WAITING carries what its polling closure captured
READY == [tag |-> "READY", begin |-> 0, target |-> 0]
RUNNING == [tag |-> "RUNNING", begin |-> 0, target |-> 0]
ZOMBIE == [tag |-> "ZOMBIE", begin |-> 0, target |-> 0]
WAITING(begin, target) == [tag |-> "WAITING", begin |-> begin, target |-> target]

\* ExceptionContext::default(): every register zero
DefaultContext == [tpidr |-> 0, x0 |-> 0, x7 |-> 0, sp |-> 0, elr |-> 0, spsr |-> 0]

\* the frame of a thread that is no task: the kernel never writes TPIDR, so
\* the frame holds what the register held at reset: zero, or a leftover that
\* is no task's pid
BootTpidrs == {0, MaxTasks + 3}
BootFrame(b) == [DefaultContext EXCEPT !.tpidr = b]

\* Stack::SIZE; a stack is known by the address of its bottom, a multiple of
\* the size counted from the start of the heap
STACK_SIZE == 4096

\* TTBR1_EL1 before the first flush_tlb: core_setup has pointed it to the
\* level-2 table, which lies in .bss and is no stack (address 0 here, the
\* stacks being counted from the start of the heap)
Ttbr1Boot == {0}

\* Stack::new with the tasks of q alive: the first fit is the lowest block
\* that no task still owns (Task::exit has given a zombie's block back)
StackNew(q) ==
    STACK_SIZE * SetMin({k \in 1 .. (Len(q) + 1) :
                            \A i \in 1 .. Len(q) :
                                q[i].state # ZOMBIE => q[i].stack # STACK_SIZE * k})

\* Task::new, its stack to be allocated
TaskNew == [context |-> DefaultContext, state |-> READY, counter |-> 0,
            priority |-> 1, pid |-> 0, stack |-> 0]

\* the SPSR add_user_process passes: EL0t
SPSR_EL0t == 4

\* the address of fn process1, the entry of the first tasks kernel_main
\* queues: some address in the kernel's code
process1 == 2^19 + 2^12

\* add_process(entry, spsr) up to its SCHEDULER.add_task call, the tasks of q
\* alive: the new task's frame gets its stack, its entry and its SPSR
add_process(entry, spsr, q) ==
    LET s == StackNew(q) IN
    [TaskNew EXCEPT !.stack = s, !.context.sp = s, !.context.elr = entry,
                    !.context.spsr = spsr]

\* add_user_process(entry)
add_user_process(entry, q) == add_process(entry, SPSR_EL0t, q)

\* arithmetic of the i8 fields counter and priority (two's complement)
I8_MODULUS == 256
I8_MAX == 127
WrapI8(x) == LET m == x % I8_MODULUS IN IF m > I8_MAX THEN m - I8_MODULUS ELSE m

\* Duration::from_millis, Duration::as_millis over microseconds
US_PER_MS == 1000
from_millis(ms) == ms * US_PER_MS
as_millis(us) == us \div US_PER_MS

\* the counter is observed every half millisecond, up to MaxTime
TimeStep == US_PER_MS \div 2
MaxTime == from_millis(MaxTimeMs)

\* a polling closure that compares with begin instead of target_time
PollEarly(task, current) ==
    IF current > task.state.begin
    THEN [ready |-> TRUE,
          task |-> [task EXCEPT !.context.x7 = 0,
                                !.context.x0 = as_millis(current - task.state.begin)]]
    ELSE [ready |-> FALSE, task |-> task]

\* the closure sleep_task builds, polled at time current
Poll(task, current) ==
    IF current > task.state.target
    THEN [ready |-> TRUE,
          task |-> [task EXCEPT !.context.x7 = 0,
                                !.context.x0 = as_millis(current - task.state.begin)]]
    ELSE [ready |-> FALSE, task |-> task]

\* an is_ready that takes every state but RUNNING for ready
IsReadyAll(task, current) ==
    IF task.state.tag = "RUNNING"
    THEN [ready |-> FALSE, task |-> task]
    ELSE [ready |-> TRUE, task |-> [task EXCEPT !.state = READY]]

\* Task::is_ready: the answer and the task as the call leaves it
is_ready(task, current) ==
    CASE task.state.tag = "READY" -> [ready |-> TRUE, task |-> task]
      [] task.state.tag = "RUNNING" -> [ready |-> FALSE, task |-> task]
      [] task.state.tag = "ZOMBIE" -> [ready |-> FALSE, task |-> task]
      [] task.state.tag = "WAITING" ->
            LET r == Poll(task, current) IN
            IF r.ready
            THEN [ready |-> TRUE, task |-> [r.task EXCEPT !.state = READY]]
            ELSE [ready |-> FALSE, task |-> task]

\* Task::is_waiting
is_waiting(task) == task.state.tag = "WAITING"

\* Task::exit, the deallocation of the stack apart
TaskExit(task) == [task EXCEPT !.state = ZOMBIE, !.counter = 0, !.priority = 0]

(***************************************************************************)
(* Scheduler (sched.rs)                                                    *)
(***************************************************************************)
\* VecDeque::remove(ind), indices from 1
RemoveAt(q, ind) == SubSeq(q, 1, ind - 1) \o SubSeq(q, ind + 1, Len(q))

\* a search that takes the task at the front for the current one
FindFront(q, e) == IF Len(q) > 0 THEN 1 ELSE 0

\* the index of the first task whose pid is the frame's tpidr, 0 if none
FindCurrent(q, e) ==
    IF \E i \in 1 .. Len(q) : q[i].pid = e.tpidr
    THEN SetMin({i \in 1 .. Len(q) : q[i].pid = e.tpidr})
    ELSE 0

\* an add_task that numbers from last_id without the increment
AddTaskNoIncrement(sched, task) ==
    LET id == IF sched.last_id = None THEN 1 ELSE Unwrap(sched.last_id)
        t == [task EXCEPT !.context.tpidr = id, !.pid = id]
    IN [processes |-> Append(sched.processes, t), last_id |-> Some(id), ret |-> Some(id)]

\* Scheduler::add_task
AddTaskOp(sched, task) ==
    LET id == (IF sched.last_id = None THEN 1 ELSE Unwrap(sched.last_id)) + 1
        t == [task EXCEPT !.context.tpidr = id, !.pid = id]
    IN [processes |-> Append(sched.processes, t), last_id |-> Some(id), ret |-> Some(id)]

\* a flush_tlb that runs the sequence whatever TTBR1_EL1 holds
FlushAlways(bottom, ttbr) == [ran |-> TRUE, ttbr1 |-> bottom]

\* flush_tlb(st) with TTBR1_EL1 = ttbr: whether the sequence ran, and the
\* TTBR1_EL1 it leaves
flush_tlb(bottom, ttbr) ==
    IF bottom # ttbr
    THEN [ran |-> TRUE, ttbr1 |-> bottom]
    ELSE [ran |-> FALSE, ttbr1 |-> ttbr]

\* a deschedule that does not save the frame into the task
DescheduleNoSave(q, upd, e) ==
    LET ind == FindCurrent(q, e) IN
    IF ind = 0
    THEN [processes |-> q, ret |-> TRUE, flush |-> None]
    ELSE LET counter == WrapI8(q[ind].counter - 1) IN
         IF upd.tag = "READY" /\ counter > 0
         THEN [processes |-> [q EXCEPT ![ind].counter = counter], ret |-> FALSE,
               flush |-> None]
         ELSE LET running == [q[ind] EXCEPT !.counter = 1, !.state = upd]
              IN [processes |-> Append(RemoveAt(q, ind), running), ret |-> TRUE,
                  flush |-> Some(running)]

\* a deschedule that pushes the task back without taking it out
DescheduleNoRemove(q, upd, e) ==
    LET ind == FindCurrent(q, e) IN
    IF ind = 0
    THEN [processes |-> q, ret |-> TRUE, flush |-> None]
    ELSE LET running == [q[ind] EXCEPT !.counter = 1, !.state = upd, !.context = e]
         IN [processes |-> Append(q, running), ret |-> TRUE, flush |-> Some(running)]

\* Scheduler::deschedule: the queue it leaves, its return value, and the
\* task whose stack it hands to flush_tlb, if it deschedules one
DescheduleOp(q, upd, e) ==
    LET ind == FindCurrent(q, e) IN
    IF ind = 0
    THEN [processes |-> q, ret |-> TRUE, flush |-> None]
    ELSE LET counter == WrapI8(q[ind].counter - 1) IN
         IF upd.tag = "READY" /\ counter > 0
         THEN [processes |-> [q EXCEPT ![ind].counter = counter], ret |-> FALSE,
               flush |-> None]
         ELSE LET running == [q[ind] EXCEPT !.counter = 1, !.state = upd,
                                            !.context = e]
              IN [processes |-> Append(RemoveAt(q, ind), running), ret |-> TRUE,
                  flush |-> Some(running)]

\* the flush_tlb call of a deschedule on core c, f the task it was made for
\* (None if deschedule made none): TTBR1_EL1 and the record of the call
FlushOn(c, f) ==
    IF f = None \/ ttbr1[c] = None
    THEN [ttbr1 |-> ttbr1, lastFlush |-> lastFlush]
    ELSE LET r == flush_tlb(Unwrap(f).stack, Unwrap(ttbr1[c])) IN
         [ttbr1 |-> [ttbr1 EXCEPT ![c] = Some(r.ttbr1)],
          lastFlush |-> [lastFlush EXCEPT ![c] =
                           Some([pid |-> Unwrap(f).pid, bottom |-> Unwrap(f).stack,
                                 before |-> Unwrap(ttbr1[c]), ran |-> r.ran,
                                 prev |-> IF lastFlush[c] = None THEN 0
                                          ELSE Unwrap(lastFlush[c]).pid])]]

\* Scheduler::schedule, k iterations of its loop left, polled at time current:
\* the queue and the frame it leaves, its return value, and what it installed
RECURSIVE ScheduleLoop(_, _, _, _)
ScheduleLoop(q, e, current, k) ==
    IF k = 0
    THEN [processes |-> q, ec |-> e, ret |-> 0, task |-> None, was |-> None]
    ELSE LET r == is_ready(Head(q), current) IN
         IF r.ready
         THEN [processes |-> <<[r.task EXCEPT !.state = RUNNING]>> \o Tail(q),
               ec |-> r.task.context, ret |-> e.tpidr,
               task |-> Some(r.task), was |-> Some(Head(q).state)]
         ELSE LET new_task ==
                    IF is_waiting(r.task)
                    THEN [r.task EXCEPT
                            !.counter = WrapI8((r.task.counter \div 2) + r.task.priority)]
                    ELSE r.task
              IN ScheduleLoop(Append(Tail(q), new_task), e, current, k - 1)

ScheduleOp(q, e, current) == ScheduleLoop(q, e, current, Len(q))

\* an exit_task that deschedules the exiting task as READY
ExitTaskAsReady(q, e) ==
    LET ind == FindCurrent(q, e)
        q1 == IF ind = 0 THEN q ELSE [q EXCEPT ![ind] = TaskExit(q[ind])]
    IN [processes |-> DescheduleOp(q1, READY, e).processes,
        exited |-> IF ind = 0 THEN None ELSE Some(q[ind].pid),
        flush |-> DescheduleOp(q1, READY, e).flush]

\* Scheduler::exit_task: Task::exit on the current task, then deschedule
ExitTaskOp(q, e) ==
    LET ind == FindCurrent(q, e)
        q1 == IF ind = 0 THEN q ELSE [q EXCEPT ![ind] = TaskExit(q[ind])]
    IN [processes |-> DescheduleOp(q1, ZOMBIE, e).processes,
        exited |-> IF ind = 0 THEN None ELSE Some(q[ind].pid),
        flush |-> DescheduleOp(q1, ZOMBIE, e).flush]

(***************************************************************************)
(* Cores: exception entry, the SCHEDULER mutex, exception return           *)
(***************************************************************************)
Sched == [processes |-> processes, last_id |-> last_id]

(* pc of a core:                                                           *)
(*   "run"       it runs its thread, outside the scheduler                 *)
(*   "add_lock"  in add_task, at SCHEDULER.0.lock()                        *)
(*   "add"       in add_task, holding the mutex                            *)
(*   "desched"   in switch, at the lock() of its deschedule block          *)
(*   "exit"      in exit_task, at the lock() of its first statement        *)
(*   "sched"     in the loop of switch or exit_task, at its lock()         *)
(*   "eret"      the scheduler has returned, the handler is returning      *)
(* The blocks of switch and exit_task take the mutex, run and drop it in   *)
(* one step; add_task holds it over a step of its own, since it is the one *)
(* path on which an interrupt can arrive meanwhile.                        *)

\* the frame of core c belongs to a task of the queue
RunsTask(c) == \E i \in 1 .. Len(processes) : processes[i].pid = ec[c].tpidr

\* tasks queued plus add_task calls under way
Adding == Cardinality({c \in Cores : pc[c] \in {"add_lock", "add"}})

InitSched ==
    /\ processes = <<>>
    /\ last_id = None
    /\ lock = None
    /\ freed = [p \in Pids |-> 0]
    /\ now = 0
    /\ pc = [c \in Cores |-> "run"]
    /\ \E b \in BootTpidrs : ec = [c \in Cores |-> BootFrame(b)]
    /\ irqMasked = [c \in Cores |-> FALSE]
    /\ update_state = [c \in Cores |-> READY]
    /\ svc_ret = [c \in Cores |-> None]
    /\ ttbr1 = [c \in Cores |-> None]
    /\ lastFlush = [c \in Cores |-> None]
    /\ installed = [c \in Cores |-> None]
    /\ added = <<>>
    /\ exited = {}

\* the free-running counter advances
ClockAdvance ==
    /\ now < MaxTime
    /\ now' = now + TimeStep
    /\ UNCHANGED <<iterVars, regVars, bootVars, kinitVars, devVars, svcVars, tlbVars, queueVars, lock, online, coreVars, histVars>>

\* add_process up to its SCHEDULER.add_task call: no masking of IRQs
AddProcess(c) ==
    /\ pc[c] = "run"
    /\ Len(processes) + Adding < MaxTasks
    /\ pc' = [pc EXCEPT ![c] = "add_lock"]
    /\ UNCHANGED <<iterVars, regVars, bootVars, kinitVars, devVars, svcVars, tlbVars, queueVars, lock, now, online, ec, irqMasked,
                   update_state, histVars>>

\* GlobalScheduler::add_task: spin::Mutex::lock succeeds
AddTaskLock(c) ==
    /\ pc[c] = "add_lock"
    /\ lock = None
    /\ lock' = Some(c)
    /\ pc' = [pc EXCEPT ![c] = "add"]
    /\ UNCHANGED <<iterVars, regVars, bootVars, kinitVars, devVars, svcVars, tlbVars, queueVars, now, online, ec, irqMasked,
                   update_state, histVars>>

\* GlobalScheduler::add_task: Scheduler::add_task under the mutex, and the
\* drop of the guard
AddTask(c) ==
    /\ pc[c] = "add"
    /\ lock = Some(c)
    /\ LET r == AddTaskOp(Sched, add_user_process(process1, processes)) IN
         /\ processes' = r.processes
         /\ last_id' = r.last_id
         /\ added' = Append(added, r.ret)
    /\ lock' = None
    /\ pc' = [pc EXCEPT ![c] = "run"]
    /\ UNCHANGED <<iterVars, regVars, bootVars, kinitVars, devVars, svcVars, tlbVars, freed, now, online, ec, irqMasked,
                   update_state, installed, exited, nticks, slices>>

\* the timer interrupt is taken on core c: exception entry masks IRQs, the
\* handler calls SCHEDULER.timer_tick, which calls switch(READY, e)
TimerIRQ(c) ==
    /\ c \in online
    /\ ~irqMasked[c]
    /\ pc[c] \in {"run", "add"}
    /\ nticks # None => Unwrap(nticks) < MaxTicks
    /\ irqMasked' = [irqMasked EXCEPT ![c] = TRUE]
    /\ update_state' = [update_state EXCEPT ![c] = READY]
    /\ pc' = [pc EXCEPT ![c] = "desched"]
    /\ nticks' = IF nticks = None THEN None ELSE Some(Unwrap(nticks) + 1)
    /\ UNCHANGED <<iterVars, regVars, bootVars, kinitVars, devVars, svcVars, tlbVars, queueVars, lock, now, online, ec,
                   installed, added, exited, slices>>

\* svc with x8 = 1 from the task on core c: syscall::handle -> sleep_task
SvcSleep(c, ms, x7) ==
    /\ c \in online
    /\ pc[c] = "run"
    /\ RunsTask(c)
    /\ irqMasked' = [irqMasked EXCEPT ![c] = TRUE]
    /\ ec' = [ec EXCEPT ![c].x0 = ms, ![c].x7 = x7]
    /\ update_state' = [update_state EXCEPT ![c] = WAITING(now, now + from_millis(ms))]
    /\ pc' = [pc EXCEPT ![c] = "desched"]
    /\ UNCHANGED <<iterVars, regVars, bootVars, kinitVars, devVars, svcVars, tlbVars, queueVars, lock, now, online, histVars>>

\* svc with x8 = 2 from the task on core c: syscall::handle -> exit_task
SvcExit(c) ==
    /\ c \in online
    /\ pc[c] = "run"
    /\ RunsTask(c)
    /\ irqMasked' = [irqMasked EXCEPT ![c] = TRUE]
    /\ update_state' = [update_state EXCEPT ![c] = ZOMBIE]
    /\ pc' = [pc EXCEPT ![c] = "exit"]
    /\ UNCHANGED <<iterVars, regVars, bootVars, kinitVars, devVars, svcVars, tlbVars, queueVars, lock, now, online, ec, histVars>>

\* the x7 a task holds when it traps to read the status afterwards
StatusVals == {0}

\* the call numbers a task traps with
MaxSyscallNr == 3
SyscallNrs == 0 .. MaxSyscallNr

\* a dispatch that takes every number but 1 for exit
HandleElseExit(x8) == IF x8 = 1 THEN "sleep" ELSE "exit"

\* the match of syscall::handle on ec.gpr[8]: the arm taken
handle(x8) ==
    CASE x8 = 1 -> "sleep"
      [] x8 = 2 -> "exit"
      [] OTHER -> "does not exist"

\* svc with a number that has no arm, the task holding x7 (and the x0 it
\* had): handle returns Err("does not exist") and touches neither the frame
\* nor the scheduler; the exception handler drops the Err and returns to
\* the task
SvcUnknown(c, x7) ==
    /\ c \in online
    /\ pc[c] = "run"
    /\ RunsTask(c)
    /\ ec' = [ec EXCEPT ![c].x7 = x7]
    /\ svc_ret' = [svc_ret EXCEPT ![c] = Some("does not exist")]
    /\ UNCHANGED <<iterVars, regVars, bootVars, kinitVars, devVars, tlbVars, queueVars, lock, now,
                   online, pc, irqMasked, update_state, histVars>>

\* svc #0 from the task on core c with x8, x0 and x7: syscall::handle
Svc(c, x8, x0, x7) ==
    \/ handle(x8) = "sleep" /\ SvcSleep(c, x0, x7)
    \/ handle(x8) = "exit" /\ SvcExit(c)
    \/ handle(x8) = "does not exist" /\ SvcUnknown(c, x7)

\* GlobalScheduler::switch, first block: deschedule under the mutex
Deschedule(c) ==
    /\ pc[c] = "desched"
    /\ lock = None
    /\ LET r == DescheduleOp(processes, update_state[c], ec[c]) IN
         /\ processes' = r.processes
         /\ pc' = [pc EXCEPT ![c] = IF r.ret THEN "sched" ELSE "eret"]
         /\ ttbr1' = FlushOn(c, r.flush).ttbr1
         /\ lastFlush' = FlushOn(c, r.flush).lastFlush
    /\ UNCHANGED <<iterVars, regVars, bootVars, kinitVars, devVars, svcVars, last_id, freed, lock, now, online, ec,
                   irqMasked, update_state, histVars>>

\* GlobalScheduler::exit_task, first statement: Scheduler::exit_task under
\* the mutex; Task::exit deallocates the stack
ExitTask(c) ==
    /\ pc[c] = "exit"
    /\ lock = None
    /\ LET r == ExitTaskOp(processes, ec[c]) IN
         /\ processes' = r.processes
         /\ freed' = IF r.exited = None THEN freed
                     ELSE [freed EXCEPT ![Unwrap(r.exited)] = @ + 1]
         /\ exited' = IF r.exited = None THEN exited
                      ELSE exited \cup {Unwrap(r.exited)}
         /\ ttbr1' = FlushOn(c, r.flush).ttbr1
         /\ lastFlush' = FlushOn(c, r.flush).lastFlush
    /\ pc' = [pc EXCEPT ![c] = "sched"]
    /\ UNCHANGED <<iterVars, regVars, bootVars, kinitVars, devVars, svcVars, last_id, lock, now, online, ec, irqMasked,
                   update_state, installed, added, nticks, slices>>

\* one turn of the loop of switch and exit_task: schedule under the mutex
Schedule(c) ==
    /\ pc[c] = "sched"
    /\ lock = None
    /\ LET r == ScheduleOp(processes, ec[c], now) IN
         /\ processes' = r.processes
         /\ ec' = [ec EXCEPT ![c] = r.ec]
         /\ pc' = [pc EXCEPT ![c] = IF r.ret > 0 THEN "eret" ELSE "sched"]
         /\ installed' = IF r.task = None THEN installed
                         ELSE [installed EXCEPT ![c] =
                                 Some([pid |-> Unwrap(r.task).pid,
                                       was |-> Unwrap(r.was), at |-> now,
                                       old |-> ec[c].tpidr])]
         /\ slices' = IF nticks = None \/ r.task = None THEN slices
                      ELSE [slices EXCEPT ![Unwrap(r.task).pid] = @ + 1]
    /\ UNCHANGED <<iterVars, regVars, bootVars, kinitVars, devVars, svcVars, tlbVars, last_id, freed, lock, now, online,
                   irqMasked, update_state, added, exited, nticks>>

\* the handler returns and eret restores PSTATE from the frame's SPSR
Eret(c) ==
    /\ pc[c] = "eret"
    /\ pc' = [pc EXCEPT ![c] = "run"]
    /\ irqMasked' = [irqMasked EXCEPT ![c] = FALSE]
    /\ installed' = [installed EXCEPT ![c] = None]
    /\ UNCHANGED <<iterVars, regVars, bootVars, kinitVars, devVars, svcVars, tlbVars, queueVars, lock, now, online, ec,
                   update_state, added, exited, nticks, slices>>

(***************************************************************************)
(* Memory layout (memory.rs) and translation tables (memory/mmu.rs)        *)
(***************************************************************************)
map_END == 2^30 - 1                         \* 0x3FFF_FFFF
mmio_BASE == 63 * 2^24                      \* 0x3F00_0000
LOCAL_INTERRUPT_CONTROLLER_BASE == 2^30     \* 0x4000_0000
mmio_END_INCLUSIVE == 2^30 + 2^16 - 1       \* 0x4000_FFFF
KERN_STACK_START == 0
KERN_STACK_END == 2^19 - 1                  \* 0x0007_FFFF
HEAP_START == 2^21                          \* 0x0020_0000
HEAP_END == 6 * 2^20 - 1                    \* 0x005F_FFFF
\* _start, the first code of the image, is placed at 0x80_000
BOOT_CORE_STACK_START == 2^19

\* the alignment the linker script gives the RO area (memory.rs:133-134)
FOUR_KIB == 4096
SIXTYFOUR_KIB_SHIFT == 16
FIVETWELVE_MIB_SHIFT == 29
L3_ENTRIES == 8192
DESCRIPTOR_BYTES == 8

addr_space_size == map_END + 1
ENTRIES_512_MIB == addr_space_size \div 2^FIVETWELVE_MIB_SHIFT

AlignUp(a, n) == ((a + n - 1) \div n) * n

\* size_of::<TranslationTables<N>>(): repr(C), align(65536)
TablesSize ==
    AlignUp(ENTRIES_512_MIB * L3_ENTRIES * DESCRIPTOR_BYTES
              + ENTRIES_512_MIB * DESCRIPTOR_BYTES, 2^SIXTYFOUR_KIB_SHIFT)

\* TABLES lies in .bss, 64 KiB aligned: here at the first such address of
\* the data and BSS range
TablesAddr(ro_e) == AlignUp(ro_e, 2^SIXTYFOUR_KIB_SHIFT)

\* 4 KiB chunks of code and RO data, and usize words of .bss after TABLES
MaxRoChunks == 17
MaxBssWords == 1

\* the values the linker symbols take: the RO area starts with _start, is
\* 4 KiB aligned at both ends, and .bss (usize aligned) holds TABLES
Placements ==
    {[ro_start |-> BOOT_CORE_STACK_START,
      ro_end |-> BOOT_CORE_STACK_START + k * FOUR_KIB,
      bss_end |-> TablesAddr(BOOT_CORE_STACK_START + k * FOUR_KIB) + TablesSize
                    + j * USIZE_BYTES] :
        k \in 1 .. MaxRoChunks, j \in 0 .. MaxBssWords}

Descriptor(name, s, e, attr, acc, xn) ==
    [name |-> name, start |-> s, end |-> e,
     mem_attributes |-> attr, acc_perms |-> acc, execute_never |-> xn]

KERNEL_VIRTUAL_LAYOUT ==
    << Descriptor("Kernel stack", KERN_STACK_START, KERN_STACK_END,
                  "CacheableDRAM", "ReadWrite", TRUE),
       Descriptor("Kernel code and RO data", ro_start, ro_end - 1,
                  "CacheableDRAM", "ReadOnly", FALSE),
       Descriptor("Kernel data and BSS", ro_end, bss_end - 1,
                  "CacheableDRAM", "ReadWrite", TRUE),
       Descriptor("Heap", HEAP_START, HEAP_END,
                  "NonCacheableDRAM", "ReadWrite", TRUE),
       Descriptor("Device MMIO", mmio_BASE, mmio_END_INCLUSIVE,
                  "Device", "ReadWrite", TRUE) >>

\* RangeInclusive::contains
Contains(d, a) == d.start <= a /\ a <= d.end

\* AttributeFields::default()
DefaultAttributeFields ==
    [mem_attributes |-> "CacheableDRAM", acc_perms |-> "ReadWrite",
     execute_never |-> TRUE]

\* the first range of the layout that holds the address decides; every
\* translation of the layout is Translation::Identity
virt_addr_properties(virt_addr) ==
    IF virt_addr > map_END
    THEN [ok |-> FALSE, output_addr |-> 0, attribute_fields |-> DefaultAttributeFields]
    ELSE LET hits == {i \in 1 .. Len(KERNEL_VIRTUAL_LAYOUT) :
                          Contains(KERNEL_VIRTUAL_LAYOUT[i], virt_addr)}
         IN  [ok |-> TRUE,
              output_addr |-> virt_addr,
              attribute_fields |->
                  IF hits = {} THEN DefaultAttributeFields
                  ELSE LET d == KERNEL_VIRTUAL_LAYOUT[SetMin(hits)] IN
                       [mem_attributes |-> d.mem_attributes,
                        acc_perms |-> d.acc_perms,
                        execute_never |-> d.execute_never]]

\* field values of STAGE1_PAGE_DESCRIPTOR and the MAIR_EL1 indices
SH_OuterShareable == 2
SH_InnerShareable == 3
AP_RW_EL1 == 0
AP_RO_EL1 == 2
mair_DEVICE == 0
mair_NORMAL == 1

\* TableDescriptor(0), PageDescriptor(0): the entries as .bss holds them
TableDescriptorZero == [VALID |-> 0, TYPE |-> 0, NEXT_LEVEL_TABLE_ADDR_64KiB |-> 0]
PageDescriptorZero ==
    [VALID |-> 0, TYPE |-> 0, AF |-> 0, SH |-> 0, AP |-> 0, AttrIndx |-> 0,
     PXN |-> 0, OUTPUT_ADDR_64KiB |-> 0]

\* From<usize> for TableDescriptor
TableDescriptorFrom(next_lvl_table_addr) ==
    [VALID |-> 1, TYPE |-> 1,
     NEXT_LEVEL_TABLE_ADDR_64KiB |-> next_lvl_table_addr \div 2^SIXTYFOUR_KIB_SHIFT]

\* From<AttributeFields> and PageDescriptor::new; the conversion has arms
\* for CacheableDRAM and Device only, a NonCacheableDRAM range gets no SH
\* and no AttrIndx bit
PageDescriptorNew(output_addr, af) ==
    [VALID |-> 1, TYPE |-> 1, AF |-> 1,
     SH |-> CASE af.mem_attributes = "CacheableDRAM" -> SH_InnerShareable
              [] af.mem_attributes = "Device" -> SH_OuterShareable
              [] OTHER -> 0,
     AttrIndx |-> CASE af.mem_attributes = "CacheableDRAM" -> mair_NORMAL
                    [] af.mem_attributes = "Device" -> mair_DEVICE
                    [] OTHER -> 0,
     AP |-> IF af.acc_perms = "ReadOnly" THEN AP_RO_EL1 ELSE AP_RW_EL1,
     PXN |-> IF af.execute_never THEN 1 ELSE 0,
     OUTPUT_ADDR_64KiB |-> output_addr \div 2^SIXTYFOUR_KIB_SHIFT]

\* the address of TABLES.lvl3[l2_nr]
Lvl3Addr(l2_nr) == TablesAddr(ro_end) + l2_nr * L3_ENTRIES * DESCRIPTOR_BYTES

\* populate_tt_entries: the entries are written in index order until a
\* lookup fails; ok is whether it returned Ok(())
populate_tt_entries ==
    LET virt(l2, l3) == l2 * 2^FIVETWELVE_MIB_SHIFT + l3 * 2^SIXTYFOUR_KIB_SHIFT
        nr(l2, l3) == l2 * L3_ENTRIES + l3
        bad == {n \in 0 .. ENTRIES_512_MIB * L3_ENTRIES - 1 :
                   ~virt_addr_properties(virt(n \div L3_ENTRIES, n % L3_ENTRIES)).ok}
        stop == IF bad = {} THEN ENTRIES_512_MIB * L3_ENTRIES ELSE SetMin(bad)
    IN  [ok |-> bad = {},
         lvl2 |-> [l2 \in 0 .. ENTRIES_512_MIB - 1 |->
                      IF nr(l2, 0) <= stop /\ nr(l2, 0) < ENTRIES_512_MIB * L3_ENTRIES
                      THEN TableDescriptorFrom(Lvl3Addr(l2))
                      ELSE lvl2[l2]],
         lvl3 |-> [l2 \in 0 .. ENTRIES_512_MIB - 1 |->
                      [l3 \in 0 .. L3_ENTRIES - 1 |->
                          IF nr(l2, l3) < stop
                          THEN LET r == virt_addr_properties(virt(l2, l3)) IN
                               PageDescriptorNew(r.output_addr, r.attribute_fields)
                          ELSE lvl3[l2][l3]]]]

\* MemoryManagementUnit::init; supported is ID_AA64MMFR0_EL1.TGran64
MmuInit(supported) ==
    /\ mmu_pc = "reset"
    /\ IF ~supported
       THEN /\ mmu_pc' = "Err"
            /\ UNCHANGED <<lvl2, lvl3>>
       ELSE LET r == populate_tt_entries IN
            /\ lvl2' = r.lvl2
            /\ lvl3' = r.lvl3
            /\ mmu_pc' = IF r.ok THEN "Ok" ELSE "Err"
    /\ UNCHANGED <<ro_start, ro_end, bss_end>>
    /\ UNCHANGED <<iterVars, regVars, zeroVars, elVars, kinitVars, devVars, svcVars, schedVars>>

\* the translation-table walk of the 64 KiB granule for a 32-bit address:
\* the level-2 index is bits 31:29, the level-3 index bits 28:16; TABLES
\* holds ENTRIES_512_MIB level-2 entries and nothing for an index beyond
Walk(a) ==
    LET l2 == a \div 2^FIVETWELVE_MIB_SHIFT
        l3 == (a % 2^FIVETWELVE_MIB_SHIFT) \div 2^SIXTYFOUR_KIB_SHIFT
    IN  IF l2 >= ENTRIES_512_MIB THEN None
        ELSE IF lvl2[l2].VALID = 0 THEN None
        ELSE Some(lvl3[l2][l3])

\* the image is loaded and .bss zeroed, the MMU is still off
InitMem ==
    /\ \E p \in Placements :
         /\ ro_start = p.ro_start
         /\ ro_end = p.ro_end
         /\ bss_end = p.bss_end
    /\ lvl2 = [l2 \in 0 .. ENTRIES_512_MIB - 1 |-> TableDescriptorZero]
    /\ lvl3 = [l2 \in 0 .. ENTRIES_512_MIB - 1 |->
                 [l3 \in 0 .. L3_ENTRIES - 1 |-> PageDescriptorZero]]
    /\ mmu_pc = "reset"

\* kernel_init is over; the tables are not followed
InitMemDone ==
    /\ \E p \in Placements :
         /\ p.ro_end = BOOT_CORE_STACK_START + FOUR_KIB
         /\ p.bss_end = TablesAddr(p.ro_end) + TablesSize
         /\ ro_start = p.ro_start
         /\ ro_end = p.ro_end
         /\ bss_end = p.bss_end
    /\ lvl2 = <<>>
    /\ lvl3 = <<>>
    /\ mmu_pc = "none"

(***************************************************************************)
(* zero_volatile (memory.rs), on a region of usize words                   *)
(***************************************************************************)
\* words of the region
MaxWords == 6

\* the addresses of the words: the region and the word that follows it
WordAddrs == {k * USIZE_BYTES : k \in 0 .. MaxWords}

\* what a word holds before it is zeroed
NOT_ZEROED == 10

\* a loop condition that takes the end in
ZvCondInclusive(ptr, end) == ptr <= end

\* while ptr < range.end
ZvCond(ptr, end) == ptr < end

\* let mut ptr = range.start
ZeroVolatileNew(start, end) ==
    /\ mem = [a \in WordAddrs |-> NOT_ZEROED]
    /\ zv_start = start
    /\ zv_end = end
    /\ zv_ptr = start
    /\ zv_pc = "loop"
    /\ written = <<>>

\* one test of the loop condition, and the loop body if it holds:
\* write_volatile(ptr, T::from(0)); ptr = ptr.offset(1)
ZeroStep ==
    /\ zv_pc = "loop"
    /\ IF ZvCond(zv_ptr, zv_end)
       THEN /\ mem' = [mem EXCEPT ![zv_ptr] = 0]
            /\ written' = Append(written, zv_ptr)
            /\ zv_ptr' = zv_ptr + USIZE_BYTES
            /\ UNCHANGED zv_pc
       ELSE /\ zv_pc' = "done"
            /\ UNCHANGED <<mem, written, zv_ptr>>
    /\ UNCHANGED <<zv_start, zv_end>>

\* zero_volatile called from kernel code (the unit test, memory.rs:327-336)
ZeroVolatile ==
    /\ ZeroStep
    /\ UNCHANGED <<iterVars, regVars, memVars, elVars, kinitVars, devVars, svcVars, schedVars>>

\* no zero_volatile call is followed
InitZeroDone ==
    /\ mem = <<>>
    /\ zv_start = 0
    /\ zv_end = 0
    /\ zv_ptr = 0
    /\ zv_pc = "done"
    /\ written = <<>>

(***************************************************************************)
(* Boot core: kinit, el3_to_el2, el2_to_el1 (cpu.rs)                       *)
(***************************************************************************)
\* SPSR_ELx.M: EL2h = 0b1001, EL1h = 0b0101
M_EL2h == 9
M_EL1h == 5

\* the exception level and the stack selection an M field names
TargetEL(m) == m \div 4
TargetSPSel(m) == m % 2

\* SPSR_EL3 as el3_to_el2 sets it: (M & 0b1001) | F | I | A | D
SPSR_EL3_value == [M |-> M_EL2h, D |-> 1, A |-> 1, I |-> 1, F |-> 1]

\* an SPSR_EL2 that leaves IRQs unmasked
SPSR_EL2_irq == [M |-> M_EL1h, D |-> 1, A |-> 1, I |-> 0, F |-> 1]

\* SPSR_EL2 as el2_to_el1 writes it: D, A, I, F masked, M = EL1h
SPSR_EL2_value == [M |-> M_EL1h, D |-> 1, A |-> 1, I |-> 1, F |-> 1]

\* the stack pointer in use: SP_ELx of the current level (PSTATE.SP = 1)
\* or SP_EL0
CurrentSP == IF spsel = 1 THEN sp_el[el] ELSE "unknown"

\* eret: PSTATE from the SPSR, execution goes on at the ELR, which both
\* functions set to their own entry
ExceptionReturn(fn, spsr) ==
    /\ el' = TargetEL(spsr.M)
    /\ spsel' = TargetSPSel(spsr.M)
    /\ daif' = (spsr.D = 1 /\ spsr.A = 1 /\ spsr.I = 1 /\ spsr.F = 1)
    /\ erets' = [erets EXCEPT ![fn] = @ + 1]
    /\ last_eret' = Some([fn |-> fn, from |-> el, to |-> TargetEL(spsr.M), spsr |-> spsr])
    /\ boot_pc' = fn

\* kinit, first call: runtime_init::zero_bss, the loop of zero_volatile
ZeroBss ==
    /\ boot_pc = "zero_bss"
    /\ ZeroStep
    /\ boot_pc' = IF zv_pc' = "done" THEN "el3_to_el2" ELSE boot_pc
    /\ UNCHANGED <<el0, el, sp_el, daif, spsel, erets, last_eret>>
    /\ UNCHANGED <<iterVars, regVars, memVars, kinitVars, devVars, svcVars, schedVars>>

\* el3_to_el2 from its entry: at EL3 it erets to itself, else it returns
\* to kinit
el3_to_el2 ==
    /\ boot_pc = "el3_to_el2"
    /\ IF el = 3
       THEN /\ ExceptionReturn("el3_to_el2", SPSR_EL3_value)
            /\ UNCHANGED sp_el
       ELSE /\ boot_pc' = "el2_to_el1"
            /\ UNCHANGED <<el, sp_el, daif, spsel, erets, last_eret>>
    /\ UNCHANGED el0
    /\ UNCHANGED <<iterVars, regVars, memVars, zeroVars, kinitVars, devVars, svcVars, schedVars>>

\* el2_to_el1 from its entry: at EL2 it copies SP to SP_EL1 and erets to
\* itself, else it returns to kinit
el2_to_el1 ==
    /\ boot_pc = "el2_to_el1"
    /\ IF el = 2
       THEN /\ sp_el' = [sp_el EXCEPT ![1] = CurrentSP]
            /\ ExceptionReturn("el2_to_el1", SPSR_EL2_value)
       ELSE /\ boot_pc' = "kernel_init"
            /\ UNCHANGED <<el, sp_el, daif, spsel, erets, last_eret>>
    /\ UNCHANGED el0
    /\ UNCHANGED <<iterVars, regVars, memVars, zeroVars, kinitVars, devVars, svcVars, schedVars>>

\* kinit, last call: kernel_init starts to execute
KernelInit ==
    /\ boot_pc = "kernel_init"
    /\ boot_pc' = "kernel"
    /\ UNCHANGED <<el0, el, sp_el, daif, spsel, erets, last_eret>>
    /\ UNCHANGED <<iterVars, regVars, memVars, zeroVars, kinitVars, devVars, svcVars, schedVars>>

\* no code sets SP_EL2 before el3_to_el2 enters EL2: a stack access with
\* the stack pointer the reset left may fault, and the core goes no further
StackFault ==
    /\ boot_pc \in {"el3_to_el2", "el2_to_el1", "kernel_init"}
    /\ CurrentSP = "unknown"
    /\ boot_pc' = "hang"
    /\ UNCHANGED <<el0, el, sp_el, daif, spsel, erets, last_eret>>
    /\ UNCHANGED <<iterVars, regVars, memVars, zeroVars, kinitVars, devVars, svcVars, schedVars>>

\* _start on the boot core has set SP and calls kinit, at level e with
\* D, A, I, F as the firmware left them
InitEl(e, masked) ==
    /\ el0 = e
    /\ el = e
    /\ boot_pc = "zero_bss"
    /\ sp_el = [l \in 1 .. 3 |-> IF l = e THEN "boot" ELSE "unknown"]
    /\ daif = masked
    /\ spsel = 1
    /\ erets = [fn \in {"el3_to_el2", "el2_to_el1"} |-> 0]
    /\ last_eret = None

\* the kernel runs: kinit is over, the way it took is not followed
InitElDone ==
    /\ el0 = 1
    /\ el = 1
    /\ boot_pc = "kernel"
    /\ sp_el = [l \in 1 .. 3 |-> IF l = 1 THEN "boot" ELSE "unknown"]
    /\ daif = FALSE
    /\ spsel = 1
    /\ erets = [fn \in {"el3_to_el2", "el2_to_el1"} |-> 0]
    /\ last_eret = None

(***************************************************************************)
(* The system timer's registers (bsp/device_driver/bcm/timer.rs)           *)
(***************************************************************************)
\* SystemTimerInner::new: the period of compare channel 1, in microseconds
interval == 200000

\* a u32 (cur_val, interval, CLO, C1) is kept as two 16-bit halves
HALF == 65536
toU32(n) == [hi |-> (n \div HALF) % HALF, lo |-> n % HALF]

\* a + b on u32: the sum modulo 2^32 and whether it left the range
add32(a, b) ==
    LET lo == a.lo + b.lo
        hi == a.hi + b.hi + (lo \div HALF)
    IN  [val |-> [hi |-> hi % HALF, lo |-> lo % HALF], overflow |-> hi >= HALF]

\* a - b modulo 2^32
sub32(a, b) ==
    LET lo == a.lo - b.lo
        hi == a.hi - b.hi - (IF lo < 0 THEN 1 ELSE 0)
    IN  [hi |-> hi % HALF, lo |-> lo % HALF]

le32(a, b) == a.hi < b.hi \/ (a.hi = b.hi /\ a.lo <= b.lo)
Zero32 == toU32(0)

\* the counter is followed in steps of half an interval, MaxClockSteps of them
MaxClockSteps == 8
ClockStep == interval \div 2
\* CLO when SystemTimer::init runs: 0, and two values short of 2^32
ClockStarts == {Zero32, sub32(Zero32, toU32(interval + ClockStep)),
                sub32(Zero32, toU32(ClockStep))}

\* `+=` on u32 (timer.rs:74, 83): the sum modulo 2^32, or a panic where the
\* build checks arithmetic overflow
AddAssign(a, b, checks) ==
    IF add32(a, b).overflow /\ checks
    THEN [panic |-> TRUE, val |-> a]
    ELSE [panic |-> FALSE, val |-> add32(a, b).val]

\* the timer is not followed
InitTimerDone ==
    /\ t_pc = "none"
    /\ clo = Zero32
    /\ clo0 = Zero32
    /\ cur_val = Zero32
    /\ c1 = Zero32
    /\ m1 = FALSE
    /\ t_k = 0
    /\ t_ops = <<>>
    /\ ovf_checks = FALSE
    /\ t_steps = 0

\* SystemTimerInner::new: cur_val 0; the driver's init is about to run
InitTimer ==
    /\ t_pc = "init"
    /\ clo \in ClockStarts
    /\ clo0 = clo
    /\ cur_val = Zero32
    /\ c1 = Zero32
    /\ m1 = FALSE
    /\ t_k = 0
    /\ t_ops = <<>>
    /\ ovf_checks \in BOOLEAN
    /\ t_steps = 0

tmrOther == <<iterVars, regVars, bootVars, kinitVars, dispVars, smpVars, fiqVars, svcVars,
             schedVars>>

\* SystemTimerInner::init: cur_val = CLO; cur_val += interval; C1 = cur_val
TmInit ==
    /\ t_pc = "init"
    /\ LET r == AddAssign(clo, toU32(interval), ovf_checks) IN
         IF r.panic
         THEN /\ t_pc' = "panic"
              /\ cur_val' = clo
              /\ UNCHANGED c1
         ELSE /\ t_pc' = "run"
              /\ cur_val' = r.val
              /\ c1' = r.val
    /\ clo0' = clo
    /\ UNCHANGED <<clo, m1, t_k, t_ops, ovf_checks, t_steps, tmrOther>>

\* the free-running counter advances by ClockStep; M1 is set when CLO
\* passes the value of C1. While the kernel runs with IRQs unmasked a set M1
\* is taken at once.
TmClock ==
    /\ t_pc \in {"run", "spin"}
    /\ ~(t_pc = "run" /\ m1)
    /\ t_steps < MaxClockSteps
    /\ t_steps' = t_steps + 1
    /\ clo' = add32(clo, toU32(ClockStep)).val
    /\ m1' = (m1 \/ (c1 # clo /\ le32(sub32(c1, clo), toU32(ClockStep))))
    /\ UNCHANGED <<t_pc, clo0, cur_val, c1, t_k, t_ops, ovf_checks, tmrOther>>

\* SystemTimer::handle up to the call of timer_tick: SystemTimerInner::handle
\* (cur_val += interval; C1 = cur_val; CS = M1::Match), then
\* SCHEDULER.timer_tick(e)
TmHandle ==
    /\ t_pc = "run"
    /\ m1
    /\ LET r == AddAssign(cur_val, toU32(interval), ovf_checks) IN
         IF r.panic
         THEN /\ t_pc' = "panic"
              /\ t_ops' = <<"add">>
              /\ UNCHANGED <<cur_val, c1, m1>>
         ELSE /\ t_pc' = "spin"
              /\ cur_val' = r.val
              /\ c1' = r.val
              /\ m1' = FALSE
              /\ t_ops' = <<"add", "C1", "CS", "timer_tick">>
    /\ UNCHANGED <<clo, clo0, t_k, ovf_checks, t_steps, tmrOther>>

\* timer_tick returns, after the switch found a ready task; the handler
\* returns Ok(())
TmReturn ==
    /\ t_pc = "spin"
    /\ t_pc' = "run"
    /\ t_k' = t_k + 1
    /\ UNCHANGED <<clo, clo0, cur_val, c1, m1, t_ops, ovf_checks, t_steps, tmrOther>>

(***************************************************************************)
(* The peripheral controller's write-only registers (peripheral_ic.rs)     *)
(***************************************************************************)
\* irq_map::SYSTEM_TIMER, and the two numbers ConnectInterrupt accepts
SYSTEM_TIMER_IRQ == 1
USB_IRQ == 9
TIMER3_IRQ == 3

\* the IRQ numbers followed: either side of the boundary between the two
\* banks, and two numbers with the same bit in different banks
FiqIRQs == {USB_IRQ, 31, 32, USB_IRQ + 32}
\* enable and disable calls per core
MaxRegCalls == 2

\* `1 << (irq.get() % 32)`: a u32 with one bit set, kept as the set of its bits
EnableBit(n) == {n % 32}
\* the bank a number belongs to: `irq.get() <= 31`
EnableReg(n) == IF n <= 31 THEN "ENABLE_1" ELSE "ENABLE_2"
DisableRegLow(n) == IF n < 31 THEN "DISABLE_1" ELSE "DISABLE_2"
DisableReg(n) == IF n <= 31 THEN "DISABLE_1" ELSE "DISABLE_2"
\* `(1 << 7) | (int.get() as u32)`, the numbers being below 2^7
FiqControlValue(n) == 2^7 + n

\* the IRQ numbers a write of bits to a bank's register names
BankIRQs(reg, bits) ==
    IF reg \in {"ENABLE_1", "DISABLE_1"} THEN bits ELSE {b + 32 : b \in bits}

\* a register write by core c; a 1 written to an enable register sets the
\* IRQ's enable bit, a 1 written to a disable register clears it, and the
\* other bits are unaffected
RegWrite(c, reg, val) ==
    /\ wo_log' = [wo_log EXCEPT ![c] = Append(@, <<reg, val>>)]
    /\ CASE reg \in {"ENABLE_1", "ENABLE_2"} ->
                /\ irq_enabled' = irq_enabled \cup BankIRQs(reg, val)
                /\ UNCHANGED FIQ_CONTROL
         [] reg \in {"DISABLE_1", "DISABLE_2"} ->
                /\ irq_enabled' = irq_enabled \ BankIRQs(reg, val)
                /\ UNCHANGED FIQ_CONTROL
         [] OTHER ->
                /\ FIQ_CONTROL' = val
                /\ UNCHANGED irq_enabled

\* the registers are not followed
InitFiqDone ==
    /\ fq_pc = [c \in Cores |-> "none"]
    /\ fq_int = [c \in Cores |-> 0]
    /\ fq_op = [c \in Cores |-> "none"]
    /\ fq_calls = [c \in Cores |-> 0]
    /\ wo_regs = None
    /\ wo_log = [c \in Cores |-> <<>>]
    /\ irq_enabled = {}
    /\ FIQ_CONTROL = 0
    /\ fq_caller = BOOT_CORE_ID

\* some IRQs enabled, FIQ_CONTROL as reset left it, the lock free; one core
\* is to call enable_fiq
InitFiq ==
    /\ fq_pc = [c \in Cores |-> "idle"]
    /\ fq_int = [c \in Cores |-> 0]
    /\ fq_op = [c \in Cores |-> "none"]
    /\ fq_calls = [c \in Cores |-> 0]
    /\ wo_regs = None
    /\ wo_log = [c \in Cores |-> <<>>]
    /\ irq_enabled \in SUBSET FiqIRQs
    /\ FIQ_CONTROL = 0
    /\ fq_caller \in Cores

fiqOther == <<iterVars, regVars, bootVars, kinitVars, dispVars, smpVars, timerVars,
              svcVars, schedVars>>

\* core c calls enable_fiq(int), no other core being in a call for int
FqEnableFiq(c, int) ==
    /\ fq_pc[c] = "idle"
    /\ c = fq_caller
    /\ fq_calls[c] = 0
    /\ \A d \in Cores \ {c} : fq_pc[d] = "idle" \/ fq_int[d] # int
    /\ fq_pc' = [fq_pc EXCEPT ![c] = "disable"]
    /\ fq_op' = [fq_op EXCEPT ![c] = "enable_fiq"]
    /\ fq_int' = [fq_int EXCEPT ![c] = int]
    /\ fq_calls' = [fq_calls EXCEPT ![c] = 1]
    /\ wo_log' = [wo_log EXCEPT ![c] = <<>>]
    /\ UNCHANGED <<wo_regs, irq_enabled, FIQ_CONTROL, fq_caller, fiqOther>>

\* another core calls enable(irq) or disable(irq), for a number that is not
\* the one given to enable_fiq
FqCall(c, op, irq) ==
    /\ fq_pc[c] = "idle"
    /\ c # fq_caller
    /\ irq # fq_int[fq_caller]
    /\ fq_calls[c] < MaxRegCalls
    /\ fq_pc' = [fq_pc EXCEPT ![c] = op]
    /\ fq_op' = [fq_op EXCEPT ![c] = op]
    /\ fq_int' = [fq_int EXCEPT ![c] = irq]
    /\ fq_calls' = [fq_calls EXCEPT ![c] = @ + 1]
    /\ wo_log' = [wo_log EXCEPT ![c] = <<>>]
    /\ UNCHANGED <<wo_regs, irq_enabled, FIQ_CONTROL, fq_caller, fiqOther>>

\* `self.wo_regs.lock()` in enable, in disable and in enable_fiq after its
\* call of disable
FqLock(c) ==
    /\ fq_pc[c] \in {"enable", "disable", "fiq"}
    /\ wo_regs = None
    /\ wo_regs' = Some(c)
    /\ fq_pc' = [fq_pc EXCEPT ![c] = IF @ = "enable" THEN "enable_locked"
                                     ELSE IF @ = "disable" THEN "disable_locked"
                                     ELSE "fiq_locked"]
    /\ UNCHANGED <<fq_int, fq_op, fq_calls, wo_log, irq_enabled, FIQ_CONTROL,
                   fq_caller, fiqOther>>

\* enable: the bit is written to the bank's enable register; the guard is
\* dropped on return
FqEnableWrite(c) ==
    /\ fq_pc[c] = "enable_locked"
    /\ RegWrite(c, EnableReg(fq_int[c]), EnableBit(fq_int[c]))
    /\ wo_regs' = None
    /\ fq_pc' = [fq_pc EXCEPT ![c] = "idle"]
    /\ UNCHANGED <<fq_int, fq_op, fq_calls, fq_caller, fiqOther>>

\* disable: the bit is written to the bank's disable register; the guard is
\* dropped on return, to the caller or to enable_fiq
FqDisableWrite(c) ==
    /\ fq_pc[c] = "disable_locked"
    /\ RegWrite(c, DisableReg(fq_int[c]), EnableBit(fq_int[c]))
    /\ wo_regs' = None
    /\ fq_pc' = [fq_pc EXCEPT ![c] = IF fq_op[c] = "enable_fiq" THEN "fiq" ELSE "idle"]
    /\ UNCHANGED <<fq_int, fq_op, fq_calls, fq_caller, fiqOther>>

\* enable_fiq: FIQ_CONTROL is written and the call returns
FqControlWrite(c) ==
    /\ fq_pc[c] = "fiq_locked"
    /\ RegWrite(c, "FIQ_CONTROL", FiqControlValue(fq_int[c]))
    /\ wo_regs' = None
    /\ fq_pc' = [fq_pc EXCEPT ![c] = "returned"]
    /\ UNCHANGED <<fq_int, fq_op, fq_calls, fq_caller, fiqOther>>

(***************************************************************************)
(* kernel_init from the driver loop on (main.rs), on the boot core         *)
(***************************************************************************)
ConnectIRQs == {USB_IRQ, TIMER3_IRQ}

\* the message of GlobalScheduler's expect()
SchedUninit == "scheduler uninitialized"
NoHandler == "No handler registered for IRQ"

\* kernel_init enters the driver loop: IRQs masked since the reset, the
\* timer not yet programmed, SCHEDULER holding None
InitKinit ==
    /\ ki_pc = "drivers"
    /\ ki_irq = "none"
    /\ ki_masked = TRUE
    /\ tmr = "off"
    /\ tmr_enabled = FALSE
    /\ sched_some = FALSE
    /\ tbl_lock = "free"
    /\ ki_panic = None
    /\ connected = {}
    /\ wr_log = {}

\* kernel_init is over, the way it took is not followed
InitKinitDone ==
    /\ ki_pc = "none"
    /\ ki_irq = "none"
    /\ ki_masked = FALSE
    /\ tmr = "armed"
    /\ tmr_enabled = TRUE
    /\ sched_some = TRUE
    /\ tbl_lock = "free"
    /\ ki_panic = None
    /\ connected = {}
    /\ wr_log = {}

\* kernel_init executes: it is followed, no handler interrupted it and the
\* kernel did not panic
KiRuns == ki_pc # "none" /\ ki_irq = "none" /\ ki_panic = None

kiSchedVars == <<iterVars, bootVars, devVars, svcVars, schedVars>>

\* main.rs:32-36, SystemTimer::init: C1 = CLO + interval
KiDriversInit ==
    /\ KiRuns
    /\ ki_pc = "drivers"
    /\ tmr' = "armed"
    /\ ki_pc' = "register"
    /\ UNCHANGED <<ki_irq, ki_masked, tmr_enabled, sched_some, tbl_lock, ki_panic,
                   connected, wr_log, regVars, kiSchedVars>>

\* main.rs:52-56, SystemTimer::register_and_enable_irq_handler:
\* register_handler takes handler_table.write()
KiRegisterLock ==
    /\ KiRuns
    /\ ki_pc = "register"
    /\ tbl_lock = "free"
    /\ tbl_lock' = "write"
    /\ wr_log' = wr_log \cup {[irq |-> SYSTEM_TIMER_IRQ, masked |-> ki_masked,
                               from |-> "kernel_init"]}
    /\ ki_pc' = "register_w"
    /\ UNCHANGED <<ki_irq, ki_masked, tmr, tmr_enabled, sched_some, ki_panic,
                   connected, regVars, kiSchedVars>>

\* ... stores the descriptor, drops the guard; enable() follows an Ok
KiRegisterStore ==
    /\ KiRuns
    /\ ki_pc = "register_w"
    /\ PeripheralRegisterHandler(BOOT_CORE_ID, SYSTEM_TIMER_IRQ, "System Timer")
    /\ tbl_lock' = "free"
    /\ tmr_enabled' = (handler_table[SYSTEM_TIMER_IRQ] = None)
    /\ ki_pc' = "unmask"
    /\ UNCHANGED <<ki_irq, ki_masked, tmr, sched_some, ki_panic, connected, wr_log,
                   kiSchedVars>>

\* main.rs:61, local_irq_unmask
KiUnmask ==
    /\ KiRuns
    /\ ki_pc = "unmask"
    /\ ki_masked' = FALSE
    /\ ki_pc' = "usb"
    /\ UNCHANGED <<ki_irq, tmr, tmr_enabled, sched_some, tbl_lock, ki_panic,
                   connected, wr_log, regVars, kiSchedVars>>

\* main.rs:63, USB.initialize() is in the USPi library, which calls back
\* ConnectInterrupt (uspi.rs:180): with 9 it sets the FIQ handler, under the
\* mutex of fiq_handler
KiConnectFiq ==
    /\ KiRuns
    /\ ki_pc = "usb"
    /\ USB_IRQ \notin connected
    /\ connected' = connected \cup {USB_IRQ}
    /\ UNCHANGED <<ki_pc, ki_irq, ki_masked, tmr, tmr_enabled, sched_some, tbl_lock,
                   ki_panic, wr_log, regVars, kiSchedVars>>

\* ConnectInterrupt with 3: register_handler takes handler_table.write()
KiConnectLock ==
    /\ KiRuns
    /\ ki_pc = "usb"
    /\ TIMER3_IRQ \notin connected
    /\ tbl_lock = "free"
    /\ tbl_lock' = "write"
    /\ wr_log' = wr_log \cup {[irq |-> TIMER3_IRQ, masked |-> ki_masked,
                               from |-> "ConnectInterrupt"]}
    /\ ki_pc' = "usb_w"
    /\ UNCHANGED <<ki_irq, ki_masked, tmr, tmr_enabled, sched_some, ki_panic,
                   connected, regVars, kiSchedVars>>

\* ... stores the descriptor, drops the guard, unwraps the Ok
KiConnectStore ==
    /\ KiRuns
    /\ ki_pc = "usb_w"
    /\ PeripheralRegisterHandler(BOOT_CORE_ID, TIMER3_IRQ, "Timer3")
    /\ tbl_lock' = "free"
    /\ connected' = connected \cup {TIMER3_IRQ}
    /\ ki_pc' = "usb"
    /\ UNCHANGED <<ki_irq, ki_masked, tmr, tmr_enabled, sched_some, ki_panic, wr_log,
                   kiSchedVars>>

\* USB.initialize() returns, with either result
KiUsbDone ==
    /\ KiRuns
    /\ ki_pc = "usb"
    /\ ki_pc' = "sched_init"
    /\ UNCHANGED <<ki_irq, ki_masked, tmr, tmr_enabled, sched_some, tbl_lock,
                   ki_panic, connected, wr_log, regVars, kiSchedVars>>

\* main.rs:70, SCHEDULER.init(); kernel_main follows
KiSchedInit ==
    /\ KiRuns
    /\ ki_pc = "sched_init"
    /\ sched_some' = TRUE
    /\ ki_pc' = "main"
    /\ UNCHANGED <<ki_irq, ki_masked, tmr, tmr_enabled, tbl_lock, ki_panic,
                   connected, wr_log, regVars, kiSchedVars>>

\* the free-running counter reaches C1: the match bit M1 is set
KiTimerMatch ==
    /\ ki_pc # "none"
    /\ ki_panic = None
    /\ tmr = "armed"
    /\ tmr' = "pending"
    /\ UNCHANGED <<ki_pc, ki_irq, ki_masked, tmr_enabled, sched_some, tbl_lock,
                   ki_panic, connected, wr_log, regVars, kiSchedVars>>

\* the boot core takes the IRQ exception: PSTATE.I is set on entry
KiIrqTake ==
    /\ KiRuns
    /\ ~ki_masked
    /\ tmr = "pending"
    /\ tmr_enabled
    /\ ki_irq' = "read"
    /\ ki_masked' = TRUE
    /\ UNCHANGED <<ki_pc, tmr, tmr_enabled, sched_some, tbl_lock, ki_panic,
                   connected, wr_log, regVars, kiSchedVars>>

\* PeripheralIC::handle_pending_irqs: handler_table.read() spins while a
\* writer holds the lock, then the descriptor of the pending IRQ is looked up
KiIrqRead ==
    /\ ki_irq = "read"
    /\ ki_panic = None
    /\ tbl_lock = "free"
    /\ IF PeripheralLookup(SYSTEM_TIMER_IRQ) = None
       THEN /\ ki_irq' = "panic"
            /\ ki_panic' = Some(NoHandler)
       ELSE /\ ki_irq' = "handle"
            /\ UNCHANGED ki_panic
    /\ UNCHANGED <<ki_pc, ki_masked, tmr, tmr_enabled, sched_some, tbl_lock,
                   connected, wr_log, regVars, kiSchedVars>>

\* SystemTimer::handle: the next compare value, M1 cleared, then
\* SCHEDULER.timer_tick: expect() on the Option; the switch is the scheduler's
KiIrqHandle ==
    /\ ki_irq = "handle"
    /\ ki_panic = None
    /\ tmr' = "armed"
    /\ IF sched_some
       THEN /\ ki_irq' = "switch"
            /\ UNCHANGED ki_panic
       ELSE /\ ki_irq' = "panic"
            /\ ki_panic' = Some(SchedUninit)
    /\ UNCHANGED <<ki_pc, ki_masked, tmr_enabled, sched_some, tbl_lock, connected,
                   wr_log, regVars, kiSchedVars>>

\* what this module follows of the devices is at rest
InitDevDone == InitDispDone /\ InitSmpDone /\ InitTimerDone /\ InitFiqDone

InitBootDone ==
    InitMemDone /\ InitZeroDone /\ InitElDone /\ InitKinitDone /\ InitDevDone


(***************************************************************************)
(* Specifications                                                          *)
(***************************************************************************)
InitIter ==
    /\ \E m \in SUBSET TestBits : PendingIRQsNew(m)
    /\ InitReg
    /\ InitBootDone
    /\ InitSched
    /\ online = {}
    /\ nticks = None
    /\ slices = [p \in Pids |-> 0]

NextIter == IterNext

SpecIter == InitIter /\ [][NextIter]_vars

InitIRQ ==
    /\ PendingIRQsNew({})
    /\ InitReg
    /\ InitBootDone
    /\ InitSched
    /\ online = {}
    /\ nticks = None
    /\ slices = [p \in Pids |-> 0]

NextIRQ == RegisterHandler

SpecIRQ == InitIRQ /\ [][NextIRQ]_vars

\* kernel_init up to the return of mmu().init()
InitMMU ==
    /\ PendingIRQsNew({})
    /\ InitReg
    /\ InitMem
    /\ InitZeroDone
    /\ InitElDone
    /\ InitKinitDone
    /\ InitDevDone
    /\ InitSched
    /\ online = {}
    /\ nticks = None
    /\ slices = [p \in Pids |-> 0]

NextMMU == \E supported \in BOOLEAN : MmuInit(supported)

SpecMMU == InitMMU /\ [][NextMMU]_vars

\* zero_volatile on any range of word addresses, start before, at or after
\* the end
InitZero ==
    /\ PendingIRQsNew({})
    /\ InitReg
    /\ InitMemDone
    /\ \E start \in WordAddrs, end \in WordAddrs : ZeroVolatileNew(start, end)
    /\ InitElDone
    /\ InitKinitDone
    /\ InitDevDone
    /\ InitSched
    /\ online = {}
    /\ nticks = None
    /\ slices = [p \in Pids |-> 0]

NextZero == ZeroVolatile

\* the core goes on executing the loop
SpecZero == InitZero /\ [][NextZero]_vars /\ WF_vars(ZeroVolatile)

\* the boot core from _start to kernel_init, started at EL1, EL2 or EL3;
\* .bss is a range with __bss_start <= __bss_end
InitBoot ==
    /\ PendingIRQsNew({})
    /\ InitReg
    /\ InitMemDone
    /\ \E start \in WordAddrs, end \in WordAddrs :
         /\ start <= end
         /\ ZeroVolatileNew(start, end)
    /\ \E e \in 1 .. 3, masked \in BOOLEAN : InitEl(e, masked)
    /\ InitKinitDone
    /\ InitDevDone
    /\ InitSched
    /\ online = {}
    /\ nticks = None
    /\ slices = [p \in Pids |-> 0]

NextBoot ==
    \/ ZeroBss
    \/ el3_to_el2
    \/ el2_to_el1
    \/ KernelInit
    \/ StackFault

SpecBoot == InitBoot /\ [][NextBoot]_vars

\* the kernel as kernel_init leaves it: the boot core takes the timer
\* interrupt and runs the tasks, kernel code on either core adds tasks
Init ==
    /\ PendingIRQsNew({})
    /\ InitReg
    /\ InitBootDone
    /\ InitSched
    /\ online = {BOOT_CORE_ID}
    /\ nticks = None
    /\ slices = [p \in Pids |-> 0]

Next ==
    \/ ClockAdvance
    \/ \E c \in Cores : AddProcess(c)
    \/ \E c \in Cores : AddTaskLock(c)
    \/ \E c \in Cores : AddTask(c)
    \/ \E c \in Cores : TimerIRQ(c)
    \/ \E c \in Cores, ms \in 0 .. MaxSleep, x7 \in RegVals : SvcSleep(c, ms, x7)
    \/ \E c \in Cores : SvcExit(c)
    \/ \E c \in Cores : Deschedule(c)
    \/ \E c \in Cores : ExitTask(c)
    \/ \E c \in Cores : Schedule(c)
    \/ \E c \in Cores : Eret(c)

Spec == Init /\ [][Next]_vars

\* n calls of add_task on an empty scheduler
RECURSIVE AddAll(_, _)
AddAll(sched, n) ==
    IF n = 0 THEN sched
    ELSE LET s == AddAll(sched, n - 1)
             r == AddTaskOp(s, add_user_process(process1, s.processes))
         IN [processes |-> r.processes, last_id |-> r.last_id]

\* kernel_main has queued n tasks and no interrupt has arrived yet; count
\* is Some(0) where the ticks and the installations are to be counted, ttbr
\* is Some(t) where TTBR1_EL1 is followed from the value t
InitQueuedN(n, count, ttbr) ==
    /\ PendingIRQsNew({})
    /\ InitReg
    /\ InitBootDone
    /\ LET s == AddAll([processes |-> <<>>, last_id |-> None], n) IN
         /\ processes = s.processes
         /\ last_id = s.last_id
         /\ added = [i \in 1 .. n |-> Some(s.processes[i].pid)]
    /\ lock = None
    /\ freed = [p \in Pids |-> 0]
    /\ now = 0
    /\ pc = [c \in Cores |-> "run"]
    /\ \E b \in BootTpidrs : ec = [c \in Cores |-> BootFrame(b)]
    /\ irqMasked = [c \in Cores |-> FALSE]
    /\ update_state = [c \in Cores |-> READY]
    /\ svc_ret = [c \in Cores |-> None]
    /\ ttbr1 = [c \in Cores |-> ttbr]
    /\ lastFlush = [c \in Cores |-> None]
    /\ installed = [c \in Cores |-> None]
    /\ exited = {}
    /\ online = {BOOT_CORE_ID}
    /\ nticks = count
    /\ slices = [p \in Pids |-> 0]

\* kernel_main has queued MaxTasks tasks
InitQueued(count, ttbr) == InitQueuedN(MaxTasks, count, ttbr)

\* the boot core among tasks that trap with any call number
InitSvc == InitQueued(None, None)

NextSvc ==
    \/ ClockAdvance
    \/ TimerIRQ(BOOT_CORE_ID)
    \/ \E x8 \in SyscallNrs, x0 \in 0 .. MaxSleep, x7 \in StatusVals :
           Svc(BOOT_CORE_ID, x8, x0, x7)
    \/ Deschedule(BOOT_CORE_ID)
    \/ ExitTask(BOOT_CORE_ID)
    \/ Schedule(BOOT_CORE_ID)
    \/ Eret(BOOT_CORE_ID)

SpecSvc == InitSvc /\ [][NextSvc]_vars

\* the boot core among tasks that sleep and exit: it goes on executing and
\* the counter goes on counting; that an interrupt or a system call arrives
\* is not assumed
InitLive == InitQueued(None, None)

NextLive ==
    \/ ClockAdvance
    \/ TimerIRQ(BOOT_CORE_ID)
    \/ \E ms \in 0 .. MaxSleep, x7 \in RegVals : SvcSleep(BOOT_CORE_ID, ms, x7)
    \/ SvcExit(BOOT_CORE_ID)
    \/ Deschedule(BOOT_CORE_ID)
    \/ ExitTask(BOOT_CORE_ID)
    \/ Schedule(BOOT_CORE_ID)
    \/ Eret(BOOT_CORE_ID)

Fairness ==
    /\ WF_vars(ClockAdvance)
    /\ WF_vars(Deschedule(BOOT_CORE_ID))
    /\ WF_vars(ExitTask(BOOT_CORE_ID))
    /\ WF_vars(Schedule(BOOT_CORE_ID))
    /\ WF_vars(Eret(BOOT_CORE_ID))

SpecLive == InitLive /\ [][NextLive]_vars /\ Fairness

\* the kernel as kernel_init leaves it, tasks being added meanwhile: the boot
\* core goes on executing, the counter goes on counting, and a core that
\* holds the mutex in add_task goes on to release it
FairnessAdd ==
    /\ Fairness
    /\ \A c \in Cores : WF_vars(AddTask(c))

SpecLiveAdd == Init /\ [][Next]_vars /\ FairnessAdd

\* the boot core among tasks that only compute
InitFair == InitQueued(Some(0), None)

NextFair ==
    \/ ClockAdvance
    \/ TimerIRQ(BOOT_CORE_ID)
    \/ Deschedule(BOOT_CORE_ID)
    \/ Schedule(BOOT_CORE_ID)
    \/ Eret(BOOT_CORE_ID)

SpecFair == InitFair /\ [][NextFair]_vars

\* the boot core among tasks that tick, sleep and exit, TTBR1_EL1 followed
InitTLB == \E t \in Ttbr1Boot : InitQueued(None, Some(t))

NextTLB == NextLive

SpecTLB == InitTLB /\ [][NextTLB]_vars

(***************************************************************************)
(* The periodic timer (bsp/device_driver/bcm/timer.rs)                     *)
(***************************************************************************)
\* the periods followed
MaxIntervals == 3

\* the counter is observed every quarter of a period
PeriodStep == interval \div 4

\* the argument of sleep, in milliseconds
SleepArgs == {as_millis(PeriodStep)}

\* the tasks queued: one more than MaxTasks, so that a sleeper has two
\* tasks that compute beside it
PeriodTasks == MaxTasks + 1

\* C1 after init at counter 0 and n runs of the handler: init sets
\* cur_val = CLO + interval, handle adds interval
CompareC1(n) == (n + 1) * interval

\* the counter has reached C1: the match bit M1 is set and the interrupt is
\* pending
TimerDue == nticks # None /\ now >= CompareC1(Unwrap(nticks))

\* the counter advances while the boot core runs a thread and no interrupt
\* is pending: the handler's code takes no time at this granularity
ClockPeriod ==
    /\ now < MaxIntervals * interval
    /\ ~TimerDue
    /\ pc[BOOT_CORE_ID] = "run"
    /\ now' = now + PeriodStep
    /\ UNCHANGED <<iterVars, regVars, bootVars, kinitVars, devVars, svcVars, tlbVars, queueVars, lock, online,
                   coreVars, histVars>>

\* SystemTimer::handle: the pending interrupt is taken, the handler re-arms
\* C1 and calls SCHEDULER.timer_tick
TimerMatch(c) == TimerDue /\ TimerIRQ(c)

\* the boot core among tasks that compute and sleep, the timer periodic
InitPeriod == InitQueuedN(PeriodTasks, Some(0), None)

NextPeriod ==
    \/ ClockPeriod
    \/ TimerMatch(BOOT_CORE_ID)
    \/ \E ms \in SleepArgs, x7 \in RegVals : SvcSleep(BOOT_CORE_ID, ms, x7)
    \/ Deschedule(BOOT_CORE_ID)
    \/ Schedule(BOOT_CORE_ID)
    \/ Eret(BOOT_CORE_ID)

SpecPeriod == InitPeriod /\ [][NextPeriod]_vars

\* kernel_init from the driver loop to the call of kernel_main, with the
\* timer interrupt and the callbacks of the USPi library
InitInit ==
    /\ PendingIRQsNew({})
    /\ InitReg
    /\ InitMemDone
    /\ InitZeroDone
    /\ InitElDone
    /\ InitKinit
    /\ InitDevDone
    /\ InitSched
    /\ online = {BOOT_CORE_ID}
    /\ nticks = None
    /\ slices = [p \in Pids |-> 0]

NextInit ==
    \/ KiDriversInit
    \/ KiRegisterLock
    \/ KiRegisterStore
    \/ KiUnmask
    \/ KiConnectFiq
    \/ KiConnectLock
    \/ KiConnectStore
    \/ KiUsbDone
    \/ KiSchedInit
    \/ KiTimerMatch
    \/ KiIrqTake
    \/ KiIrqRead
    \/ KiIrqHandle

SpecInit == InitInit /\ [][NextInit]_vars

\* one IRQ exception on either core, for every choice of registered
\* handlers and pending lines; the other core's local table is full
InitDispatch ==
    /\ PendingIRQsNew({})
    /\ lastReg = NoReg
    /\ InitMemDone
    /\ InitZeroDone
    /\ InitElDone
    /\ InitKinitDone
    /\ InitSched
    /\ online = {BOOT_CORE_ID}
    /\ nticks = None
    /\ slices = [p \in Pids |-> 0]
    /\ InitSmpDone
    /\ InitTimerDone
    /\ InitFiqDone
    /\ \E c \in Cores, P \in SUBSET DispPeriphBits, L \in SUBSET DispLocalBits :
          /\ InitDisp(c)
          /\ handler_table = [n \in 0 .. MAX_PERIPHERAL_IRQ_NUMBER |->
                                 IF n \in P THEN Some("d1") ELSE None]
          /\ handler_tables = [k \in Cores |-> [n \in 0 .. MAX_LOCAL_IRQ_NUMBER |->
                                 IF k # c THEN Some("d2")
                                 ELSE IF n \in L THEN Some("d1") ELSE None]]

NextDispatch ==
    \/ DpEntry
    \/ DpGetPending
    \/ DpPeriphNext
    \/ DpLocalNext
    \/ \E ok \in BOOLEAN : DpHandlerReturn(ok)
    \/ \E n \in DispPeriphBits : DpLine("periph", n)
    \/ \E n \in DispLocalBits : DpLine("local", n)

SpecDispatch == InitDispatch /\ [][NextDispatch]_vars

\* the four cores from reset to the boot core's call of core_setup
InitSMP ==
    /\ PendingIRQsNew({})
    /\ InitReg
    /\ InitMemDone
    /\ InitZeroDone
    /\ InitElDone
    /\ InitKinitDone
    /\ InitDispDone
    /\ InitTimerDone
    /\ InitFiqDone
    /\ InitSmp
    /\ InitSched
    /\ online = {BOOT_CORE_ID}
    /\ nticks = None
    /\ slices = [p \in Pids |-> 0]

NextSMP ==
    \/ BcZeroBss
    \/ BcDescend
    \/ BcMmuInit
    \/ BcCoreSetup
    \/ \E c \in SecCores : ScParked(c)
    \/ \E c \in SecCores : ScStart(c)
    \/ \E c \in SecCores : ScStart2(c)
    \/ \E c \in SecCores : ScZeroSlot(c)
    \/ \E c \in SecCores : ScCoreSetup(c)

SpecSMP == InitSMP /\ [][NextSMP]_vars

\* a call of wake_up_secondary_cores
InitWakeUp ==
    /\ PendingIRQsNew({})
    /\ InitReg
    /\ InitMemDone
    /\ InitZeroDone
    /\ InitElDone
    /\ InitKinitDone
    /\ InitDispDone
    /\ InitTimerDone
    /\ InitFiqDone
    /\ InitWake
    /\ InitSched
    /\ online = {BOOT_CORE_ID}
    /\ nticks = None
    /\ slices = [p \in Pids |-> 0]

NextWakeUp ==
    \/ BcWakeWrite
    \/ BcWakeSev
    \/ BcWakeWait
    \/ \E c \in SecCores : ScParked(c)
    \/ \E c \in SecCores : ScStart2(c)
    \/ \E c \in SecCores : ScZeroSlot(c)
    \/ \E c \in SecCores : ScCoreSetup(c)

FairnessWakeUp ==
    /\ WF_vars(BcWakeWrite) /\ WF_vars(BcWakeSev) /\ WF_vars(BcWakeWait)
    /\ \A c \in SecCores :
          /\ WF_vars(ScParked(c)) /\ WF_vars(ScStart2(c))
          /\ WF_vars(ScZeroSlot(c)) /\ WF_vars(ScCoreSetup(c))

SpecWakeUp == InitWakeUp /\ [][NextWakeUp]_vars /\ FairnessWakeUp

\* the system timer from the driver's init on, the handler taking any time
InitSysTimer ==
    /\ PendingIRQsNew({})
    /\ InitReg
    /\ InitMemDone
    /\ InitZeroDone
    /\ InitElDone
    /\ InitKinitDone
    /\ InitDispDone
    /\ InitSmpDone
    /\ InitTimer
    /\ InitFiqDone
    /\ InitSched
    /\ online = {BOOT_CORE_ID}
    /\ nticks = None
    /\ slices = [p \in Pids |-> 0]

NextSysTimer ==
    \/ TmInit
    \/ TmClock
    \/ TmHandle
    \/ TmReturn

SpecSysTimer == InitSysTimer /\ [][NextSysTimer]_vars

\* one core in enable_fiq, the others in enable and disable
InitFiqCalls ==
    /\ PendingIRQsNew({})
    /\ InitReg
    /\ InitMemDone
    /\ InitZeroDone
    /\ InitElDone
    /\ InitKinitDone
    /\ InitDispDone
    /\ InitSmpDone
    /\ InitTimerDone
    /\ InitFiq
    /\ InitSched
    /\ online = {BOOT_CORE_ID}
    /\ nticks = None
    /\ slices = [p \in Pids |-> 0]

NextFiqCalls ==
    \/ \E c \in Cores, int \in FiqIRQs : FqEnableFiq(c, int)
    \/ \E c \in Cores, op \in {"enable", "disable"}, irq \in FiqIRQs : FqCall(c, op, irq)
    \/ \E c \in Cores : FqLock(c)
    \/ \E c \in Cores : FqEnableWrite(c)
    \/ \E c \in Cores : FqDisableWrite(c)
    \/ \E c \in Cores : FqControlWrite(c)

SpecFiqCalls == InitFiqCalls /\ [][NextFiqCalls]_vars

----------------------------------------------------------------------------
(***************************************************************************)
(* Claims                                                                  *)
(***************************************************************************)
Elems(s) == {s[i] : i \in 1 .. Len(s)}

\* C1: iterating PendingIRQs::new(m) yields exactly the positions of the set
\* bits of m, in strictly ascending order, each once, and then None: what has
\* been yielded so far is the ascending list of the bits of m below every bit
\* still in the mask, and at None it is the ascending list of all bits of m.
C1_PendingIterator ==
    /\ \A i \in 1 .. Len(yielded) : \A j \in 1 .. Len(yielded) :
          i < j => yielded[i] < yielded[j]
    /\ Elems(yielded) \cup bitmask = mask0
    /\ Elems(yielded) \cap bitmask = {}
    /\ \A y \in Elems(yielded) : \A b \in bitmask : y < b
    /\ Len(yielded) <= Cardinality(mask0)
    /\ iterDone => /\ Elems(yielded) = mask0
                   /\ Len(yielded) = Cardinality(mask0)
    /\ (iterDone /\ mask0 = {0, 2, 61, 63}) => yielded = <<0, 2, 61, 63>>
    /\ (iterDone /\ mask0 = {63}) => yielded = <<63>>
    /\ (iterDone /\ mask0 = {}) => yielded = <<>>

C1_Witness ==
    /\ iterDone
    /\ mask0 = {0, 2, 61, 63}
    /\ yielded = <<0, 2, 61, 63>>

\* C2: a register_handler call for an IRQ number whose slot (of the calling
\* core, for a local IRQ) is already occupied returns Err and leaves the
\* stored descriptor in place, so that a dispatch still finds the first one.
C2_RegisterOnce ==
    (lastReg.ctl # "none" /\ lastReg.prev # None) =>
        /\ ~lastReg.ok
        /\ IF lastReg.ctl = "periph"
           THEN PeripheralLookup(lastReg.n) = lastReg.prev
           ELSE LocalLookup(lastReg.core, lastReg.n) = lastReg.prev

\* C3: every acquisition of the SCHEDULER mutex happens with IRQs masked on
\* the acquiring core: a core that holds the mutex has its IRQs masked, so no
\* timer interrupt can be taken on it meanwhile.
C3_LockHeldMasked == \A c \in Cores : lock = Some(c) => irqMasked[c]

\* C4: when the switch of a timer tick finds no queued task whose pid is
\* ec.tpidr, the scheduler puts a task with pid 1, state Running and context
\* *ec at the front of the queue and returns without touching ec.
C4_BootstrapTick ==
    [][\A c \in Cores :
          (/\ pc[c] = "desched"
           /\ pc'[c] # "desched"
           /\ update_state[c].tag = "READY"
           /\ FindCurrent(processes, ec[c]) = 0)
          => /\ pc'[c] = "eret"
             /\ ec'[c] = ec[c]
             /\ Len(processes') = Len(processes) + 1
             /\ Head(processes').pid = 1
             /\ Head(processes').state = RUNNING
             /\ Head(processes').context = ec[c]]_vars

\* C5: with N >= 2 tasks queued that never sleep or exit, once K ticks have
\* been delivered and handled on the one core, every one of the N tasks has
\* been installed at least (K div N) - 1 times.
C5_FairShare ==
    (nticks # None /\ pc[BOOT_CORE_ID] = "run" /\ Len(processes) >= 2) =>
        \A i \in 1 .. Len(processes) :
            slices[processes[i].pid] >= (Unwrap(nticks) \div Len(processes)) - 1

\* C6: a task that issued sleep(ms), when schedule next installs it on a
\* core, has in its restored frame x7 = 0 and in x0 the whole milliseconds
\* elapsed since the call, which are at least ms; it is installed only when
\* the counter is past its deadline.
C6_SleepResume ==
    \A c \in Cores :
        (installed[c] # None /\ Unwrap(installed[c]).was.tag = "WAITING") =>
            LET i == Unwrap(installed[c]) IN
            /\ ec[c].tpidr = i.pid
            /\ ec[c].x7 = 0
            /\ ec[c].x0 = as_millis(i.at - i.was.begin)
            /\ from_millis(ec[c].x0) >= i.was.target - i.was.begin
            /\ i.at > i.was.target

C6_Witness ==
    \E c \in Cores :
        /\ pc[c] = "eret"
        /\ installed[c] # None
        /\ Unwrap(installed[c]).was.tag = "WAITING"
        /\ Unwrap(installed[c]).was.target - Unwrap(installed[c]).was.begin
              = from_millis(MaxSleep)
        /\ ec[c].x0 >= MaxSleep
        /\ ec[c].x7 = 0

\* C7: a task that called exit is Zombie from then on, its stack has been
\* deallocated exactly once, schedule never installs its context on any core
\* again, and no core but the one still looping in exit_task has its frame.
C7_ExitOnce ==
    \A p \in Pids :
        /\ freed[p] <= 1
        /\ freed[p] = 1 <=> p \in exited
        /\ p \in exited =>
              /\ \A i \in 1 .. Len(processes) :
                    processes[i].pid = p => processes[i].state = ZOMBIE
              /\ \A c \in Cores :
                    installed[c] # None => Unwrap(installed[c]).pid # p
              /\ \A c \in Cores : ec[c].tpidr = p => pc[c] = "sched"

C7_Witness ==
    \E p \in exited : \E c \in Cores :
        /\ pc[c] = "run"
        /\ RunsTask(c)
        /\ ec[c].tpidr # p
        /\ freed[p] = 1
        /\ \E i \in 1 .. Len(processes) :
              processes[i].pid = p /\ processes[i].state = ZOMBIE

\* core c is in the loop of exit_task
ExitLoop(c) == pc[c] = "sched" /\ update_state[c].tag = "ZOMBIE"

\* a task that is Ready, or a sleeper whose deadline the counter will pass
Runnable(task) ==
    \/ task.state.tag = "READY"
    \/ task.state.tag = "WAITING" /\ task.state.target < MaxTime

\* exit_task has returned on core c and the handler is about to return
ExitReturned(c) == pc[c] = "eret" /\ update_state[c].tag = "ZOMBIE"

C9_RunningBound ==
    (\A c \in Cores : pc[c] \in {"run", "add_lock", "add"}) =>
        Cardinality({i \in 1 .. Len(processes) : processes[i].state = RUNNING})
            <= Cardinality({c \in online : RunsTask(c)})

C11_ZombieEvicted ==
    [][\A c \in Cores :
          (/\ Schedule(c)
           /\ processes # <<>>
           /\ Head(processes).state = ZOMBIE)
          => \A i \in 1 .. Len(processes') :
                processes'[i].pid # Head(processes).pid]_vars

\* C12: at each deschedule of a task the flush sequence runs if and only if
\* the bottom of the task's stack differs from TTBR1_EL1; afterwards
\* TTBR1_EL1 is that bottom; so a deschedule of the task that was also the
\* last one descheduled on the core runs no flush.
C12_FlushIffDiffers ==
    \A c \in Cores :
        lastFlush[c] # None =>
            LET f == Unwrap(lastFlush[c]) IN
            /\ f.ran <=> f.bottom # f.before
            /\ ttbr1[c] = Some(f.bottom)
            /\ f.prev = f.pid => ~f.ran

C12_Witness ==
    \E c \in Cores :
        /\ lastFlush[c] # None
        /\ Unwrap(lastFlush[c]).prev = Unwrap(lastFlush[c]).pid
        /\ ~Unwrap(lastFlush[c]).ran
        /\ pc[c] = "run"


\* the base addresses of the 64 KiB pages of the MMIO range
MmioPages ==
    {mmio_BASE + k * 2^SIXTYFOUR_KIB_SHIFT :
        k \in 0 .. (mmio_END_INCLUSIVE - mmio_BASE) \div 2^SIXTYFOUR_KIB_SHIFT}

\* C13: once init() has returned Ok, every 64 KiB page of the MMIO range
\* [0x3F00_0000, 0x4000_FFFF], the page at 0x4000_0000 included, has a valid
\* level-3 descriptor behind a valid level-2 entry, with AttrIndx = DEVICE,
\* SH = OuterShareable, AP = read-write and PXN = 1.
C13_MmioMapped ==
    mmu_pc = "Ok" =>
        \A a \in MmioPages :
            /\ Walk(a) # None
            /\ Unwrap(Walk(a)).VALID = 1
            /\ Unwrap(Walk(a)).AttrIndx = mair_DEVICE
            /\ Unwrap(Walk(a)).SH = SH_OuterShareable
            /\ Unwrap(Walk(a)).AP = AP_RW_EL1
            /\ Unwrap(Walk(a)).PXN = 1

\* the 4 KiB-aligned addresses of the mapped address space; the linker
\* symbols and the pages are 4 KiB aligned, so that every byte of a chunk
\* lies inside or outside the RO segment, and in the page, as its first
Chunks == {k * FOUR_KIB : k \in 0 .. addr_space_size \div FOUR_KIB - 1}

InRo(a) == ro_start <= a /\ a < ro_end

\* C14: once init() has returned Ok, the descriptor that covers an address
\* has AP = read-only and PXN = 0 if the address lies in [__ro_start,
\* __ro_end), and PXN = 1 if it lies outside, whatever the placement of the
\* two symbols.
C14_RoSegmentOnly ==
    mmu_pc = "Ok" =>
        \A a \in Chunks :
            /\ Walk(a) # None
            /\ IF InRo(a)
               THEN Unwrap(Walk(a)).AP = AP_RO_EL1 /\ Unwrap(Walk(a)).PXN = 0
               ELSE Unwrap(Walk(a)).PXN = 1

\* C16: every range of the layout but "Kernel data and BSS" starts and ends
\* (end + 1) on a 64 KiB boundary, with end + 1 >= start; so does the end of
\* the code and RO range, __ro_end.
C16_Aligned64KiB ==
    \A i \in 1 .. Len(KERNEL_VIRTUAL_LAYOUT) :
        LET d == KERNEL_VIRTUAL_LAYOUT[i] IN
        d.name # "Kernel data and BSS" =>
            /\ d.start % 2^SIXTYFOUR_KIB_SHIFT = 0
            /\ (d.end + 1) % 2^SIXTYFOUR_KIB_SHIFT = 0
            /\ d.end + 1 >= d.start

\* C17: syscall::handle with a call number other than 1 and 2 returns
\* Err("does not exist") and changes nothing: the ready queue, the mutex and
\* the frame are as they were at the trap, and the calling task is still
\* the task its core runs.
C17_UnknownNoEffect ==
    [][\A c \in Cores, x8 \in SyscallNrs \ {1, 2},
          x0 \in 0 .. MaxSleep, x7 \in StatusVals :
            Svc(c, x8, x0, x7) =>
                /\ svc_ret'[c] = Some("does not exist")
                /\ processes' = processes
                /\ last_id' = last_id /\ lock' = lock /\ freed' = freed
                /\ ec'[c] = [ec[c] EXCEPT !.x7 = x7]
                /\ update_state' = update_state
                /\ pc'[c] = "run"
                /\ \E i \in 1 .. Len(processes') :
                      /\ processes'[i].pid = ec'[c].tpidr
                      /\ processes'[i].state = RUNNING]_vars

\* a task has trapped with an unknown number and runs on
C17_Witness ==
    \E c \in Cores :
        /\ svc_ret[c] = Some("does not exist")
        /\ pc[c] = "run"
        /\ RunsTask(c)

\* C18: a syscall that fails, as one with an unknown call number does,
\* returns to its caller with x7 # 0.
C18_FailureStatus ==
    [][\A c \in Cores, x8 \in SyscallNrs,
          x0 \in 0 .. MaxSleep, x7 \in StatusVals :
            (Svc(c, x8, x0, x7) /\ handle(x8) = "does not exist")
                => ec'[c].x7 # 0]_vars

InRange(a) == zv_start <= a /\ a < zv_end

\* C20: zero_volatile(start..end) terminates, and when it has returned
\* exactly the words at the addresses of [start, end) are zero; it writes
\* each of them once and no other word, and nothing when start >= end.
C20_ZeroVolatile ==
    /\ <>(zv_pc = "done")
    /\ [](/\ \A i \in 1 .. Len(written) : InRange(written[i])
          /\ \A i, j \in 1 .. Len(written) : written[i] = written[j] => i = j
          /\ zv_start + Len(written) * USIZE_BYTES = zv_ptr
          /\ (zv_start >= zv_end) => written = <<>>
          /\ zv_pc = "done" =>
                \A a \in WordAddrs : (mem[a] = 0) <=> InRange(a))

\* a call on a range of more than one word has returned
C20_Witness ==
    /\ zv_pc = "done"
    /\ zv_end >= zv_start + 2 * USIZE_BYTES
    /\ Len(written) >= 2

\* the cores whose frame carries the pid p
CoresOf(p) == {c \in Cores : ec[c].tpidr = p}

\* C21: whenever the scheduler mutex is free and no core is between the
\* deschedule and the schedule of a switch (or of exit_task), every task in
\* state Running is the current task of exactly one core, and no task is
\* current on two cores.
C21_RunningIsCurrent ==
    (lock = None /\ \A c \in Cores : pc[c] # "sched") =>
        /\ \A i \in 1 .. Len(processes) :
              processes[i].state = RUNNING =>
                  Cardinality(CoresOf(processes[i].pid)) = 1
        /\ \A i \in 1 .. Len(processes) :
              Cardinality(CoresOf(processes[i].pid)) <= 1

\* core c is in the loop of switch
SwitchLoop(c) == pc[c] = "sched" /\ update_state[c].tag # "ZOMBIE"

\* C22: a switch that has reached its schedule loop while some task of the
\* queue is Ready, or is a sleeper whose deadline the counter will pass,
\* terminates: the handler gets to its return.
C22_SwitchTerminates ==
    (/\ SwitchLoop(BOOT_CORE_ID)
     /\ \E i \in 1 .. Len(processes) : Runnable(processes[i]))
       ~> (pc[BOOT_CORE_ID] = "eret")

\* the record of the task with pid p in the queue q, None if there is none
TaskOf(q, p) ==
    IF \E i \in 1 .. Len(q) : q[i].pid = p
    THEN Some(q[CHOOSE i \in 1 .. Len(q) : q[i].pid = p])
    ELSE None

\* the task with pid p sleeps: it is in the queue in state Waiting
Sleeps(p) == TaskOf(processes, p) # None /\ is_waiting(Unwrap(TaskOf(processes, p)))

\* C23: a task that sleeps stays in the queue in state Waiting, its deadline
\* and its saved context unchanged, through every step but a schedule pass
\* that takes the mutex, finds the counter past the deadline (now > begin +
\* ms) and installs the task on the core that runs the pass.
C23_SleeperStays ==
    [][\A p \in Pids :
          Sleeps(p) =>
              LET t == Unwrap(TaskOf(processes, p)) IN
              \/ /\ TaskOf(processes', p) # None
                 /\ Unwrap(TaskOf(processes', p)).state = t.state
                 /\ Unwrap(TaskOf(processes', p)).context = t.context
                 /\ \A c \in Cores :
                       installed'[c] # installed[c] /\ installed'[c] # None
                           => Unwrap(installed'[c]).pid # p
              \/ /\ now > t.state.target
                 /\ t.state.target = t.state.begin + from_millis(t.context.x0)
                 /\ lock = None
                 /\ \E c \in Cores :
                       /\ Schedule(c)
                       /\ installed'[c] # None
                       /\ Unwrap(installed'[c]).pid = p
                       /\ ec'[c].tpidr = p]_vars

\* a pass has polled a sleeper before its deadline, left it asleep, and has
\* woken the sleeper behind it in the queue
C23_Witness ==
    \E p \in Pids, c \in Cores :
        /\ Sleeps(p)
        /\ Unwrap(TaskOf(processes, p)).context.x0 = MaxSleep
        /\ now <= Unwrap(TaskOf(processes, p)).state.target
        /\ now > Unwrap(TaskOf(processes, p)).state.begin
        /\ pc[c] = "eret"
        /\ installed[c] # None
        /\ Unwrap(installed[c]).pid # p
        /\ Unwrap(installed[c]).was.tag = "WAITING"
        /\ Unwrap(installed[c]).at = now

\* C24: a task that called sleep(ms) is resumed no later than one period of
\* the timer after its deadline: the x0 it is resumed with is at least ms
\* and at most ms plus the period (sleep(50) returns within [50, 250]).
C24_SleepWithinPeriod ==
    \A c \in Cores :
        (installed[c] # None /\ Unwrap(installed[c]).was.tag = "WAITING") =>
            LET i == Unwrap(installed[c])
                ms == as_millis(i.was.target - i.was.begin)
            IN /\ ec[c].x0 >= ms
               /\ ec[c].x0 <= ms + as_millis(interval)

\* the ticks a task installed with the record t runs through before a tick
\* preempts it: the calls of deschedule(READY) up to the one that returns
\* true
RECURSIVE SliceTicks(_)
SliceTicks(t) ==
    LET r == DescheduleOp(<<t>>, READY, t.context) IN
    IF r.ret THEN 1 ELSE 1 + SliceTicks(r.processes[1])

\* C25: a task that schedule has just woken from Waiting gets a longer slice,
\* more ticks before it is preempted, than a task of the same priority that
\* stayed runnable and waits Ready in the queue.
C25_WokenSliceLonger ==
    \A c \in Cores :
        (/\ pc[c] = "eret"
         /\ installed[c] # None
         /\ Unwrap(installed[c]).was.tag = "WAITING") =>
            \A i \in 1 .. Len(processes) :
                (/\ processes[i].state = READY
                 /\ processes[i].priority = Head(processes).priority)
                    => SliceTicks(Head(processes)) > SliceTicks(processes[i])

\* the places of the queue that hold the pid p
PlacesOf(p) == {i \in 1 .. Len(processes) : processes[i].pid = p}

\* the pids add_task has returned
AddedPids == {Unwrap(added[k]) : k \in 1 .. Len(added)}

\* C26: whenever the scheduler mutex is free the queue is a set of distinct
\* tasks: no pid is in it twice, it holds no pid that add_task did not hand
\* out, and every pid added and not exited is in it exactly once, whatever
\* the cores have interleaved.
C26_QueueIsSet ==
    lock = None =>
        /\ \A i, j \in 1 .. Len(processes) :
              processes[i].pid = processes[j].pid => i = j
        /\ \A i \in 1 .. Len(processes) : processes[i].pid \in AddedPids
        /\ \A p \in AddedPids \ exited : Cardinality(PlacesOf(p)) = 1

\* the queue after adds from both cores, a descheduling and an exit: the
\* tasks are no longer in the order of their pids
C26_Witness ==
    /\ lock = None
    /\ Len(added) = MaxTasks
    /\ exited # {}
    /\ AddedPids \ exited # {}
    /\ \E i, j \in 1 .. Len(processes) :
          i < j /\ processes[i].pid > processes[j].pid
    /\ \A c \in Cores : pc[c] = "run"

\* the frame a task saved as ctx is resumed with when schedule finds it in
\* the state st at time t: a completed sleep overwrites x0 and x7
ResumedFrame(ctx, st, t) ==
    IF st.tag = "WAITING"
    THEN [ctx EXCEPT !.x0 = as_millis(t - st.begin), !.x7 = 0]
    ELSE ctx

\* C27: the frame of a task is saved whole when the task is descheduled, is
\* left alone while the task is queued, and is installed whole when the task
\* is next scheduled, but for x0 and x7 after a completed sleep; a new task
\* is queued with sp, elr and spsr as add_process set them and tpidr = pid;
\* no step changes the saved frame of a task other than the one it
\* deschedules or wakes.
C27_FramePreserved ==
    [][/\ \A c \in Cores :
            (Deschedule(c) \/ ExitTask(c)) =>
                LET ind == FindCurrent(processes, ec[c]) IN
                /\ (ind # 0 /\ pc'[c] = "sched") =>
                      /\ processes'[Len(processes')].pid = ec[c].tpidr
                      /\ processes'[Len(processes')].context = ec[c]
                /\ \A p \in Pids :
                      (TaskOf(processes, p) # None /\ p # ec[c].tpidr) =>
                          Unwrap(TaskOf(processes', p)).context
                              = Unwrap(TaskOf(processes, p)).context
       /\ \A c \in Cores :
            Schedule(c) =>
                /\ (installed'[c] # None /\ installed'[c] # installed[c]) =>
                      LET i == Unwrap(installed'[c])
                          t == Unwrap(TaskOf(processes, i.pid))
                      IN /\ ec'[c] = ResumedFrame(t.context, t.state, now)
                         /\ ec'[c].tpidr = i.pid
                         /\ Unwrap(TaskOf(processes', i.pid)).context = ec'[c]
                /\ \A p \in Pids :
                      (/\ TaskOf(processes, p) # None
                       /\ (installed'[c] # None => Unwrap(installed'[c]).pid # p)) =>
                          Unwrap(TaskOf(processes', p)).context
                              = Unwrap(TaskOf(processes, p)).context
       /\ \A c \in Cores :
            AddTask(c) =>
                LET t == processes'[Len(processes')] IN
                /\ t.context = [DefaultContext EXCEPT !.tpidr = t.pid, !.sp = t.stack,
                                                      !.elr = process1,
                                                      !.spsr = SPSR_EL0t]
                /\ SubSeq(processes', 1, Len(processes)) = processes
       /\ (\A c \in Cores : ~(Deschedule(c) \/ ExitTask(c) \/ Schedule(c) \/ AddTask(c)))
            => processes' = processes]_vars

\* a task that slept is installed again, with the frame it saved and the
\* result of the sleep in x0 and x7, beside a task that never ran
C27_Witness ==
    \E c \in Cores :
        /\ pc[c] = "eret"
        /\ installed[c] # None
        /\ Unwrap(installed[c]).was.tag = "WAITING"
        /\ ec[c].tpidr = Unwrap(installed[c]).pid
        /\ ec[c].sp = Unwrap(TaskOf(processes, ec[c].tpidr)).stack
        /\ ec[c].elr = process1
        /\ ec[c].x7 = 0
        /\ Len(processes) = MaxTasks

\* the counter the deschedule of a tick leaves in the task it charges: one
\* less, or 1 again where the slice is used up and the task is requeued
Charged(counter) ==
    IF WrapI8(counter - 1) > 0 THEN WrapI8(counter - 1) ELSE 1

C29_TickAfterInit ==
    /\ ki_irq = "handle" => sched_some
    /\ ki_panic # Some(SchedUninit)

\* C30: every acquisition of the handler table's write lock happens with
\* IRQs masked on the boot core, and an IRQ dispatch waiting for the read
\* lock never finds the lock held by the writer it interrupted.
C30_WritesMasked ==
    /\ \A w \in wr_log : w.masked
    /\ ~(ki_irq = "read" /\ tbl_lock = "write")


\* the elements of a set of numbers in ascending order
RECURSIVE Ascending(_)
Ascending(S) == IF S = {} THEN <<>> ELSE <<SetMin(S)>> \o Ascending(S \ {SetMin(S)})

\* the slot a dispatch of controller ctl on the core of the exception reads
SlotOf(ctl, n) == IF ctl = "periph" THEN handler_table[n] ELSE handler_tables[dp_core][n]

\* the handler calls one controller's dispatch has made, and the calls it
\* owes to a snapshot: one per set bit with a descriptor, lowest bit first
CallsOf(ctl) == SelectSeq(dp_calls, LAMBDA r : r.ctl = ctl)
OwedTo(ctl, snap) ==
    LET bits == Ascending({n \in snap : SlotOf(ctl, n) # None})
    IN  [i \in 1 .. Len(bits) |-> [ctl |-> ctl, n |-> bits[i], d |-> Unwrap(SlotOf(ctl, bits[i]))]]

\* the for loop of the controller has ended
LoopOver(ctl) ==
    IF ctl = "periph"
    THEN dp_pc \in {"local_start", "local", "done"} \/ (dp_pc = "handler" /\ dp_cur.ctl = "local")
    ELSE dp_pc = "done"

\* C31: one call of handle_pending_irqs reads the pending bitmask once; the
\* handler calls it makes are, in this order, those of the set bits of that
\* snapshot that have a handler, lowest IRQ number first and each once: at
\* any moment a prefix of that list, and the whole list when the loop ends.
\* A line asserted after the snapshot gets no call.
C31_DispatchSnapshot ==
    \A ctl \in {"periph", "local"} :
        /\ Len(dp_snap[ctl]) <= 1
        /\ Len(dp_snap[ctl]) = 0 => CallsOf(ctl) = <<>>
        /\ Len(dp_snap[ctl]) = 1 =>
              LET owed == OwedTo(ctl, dp_snap[ctl][1]) IN
                /\ Len(CallsOf(ctl)) <= Len(owed)
                /\ CallsOf(ctl) = SubSeq(owed, 1, Len(CallsOf(ctl)))
                /\ LoopOver(ctl) /\ dp_panic = None => CallsOf(ctl) = owed

\* core 0 returned from a dispatch that called three peripheral handlers and
\* a local one, while lines were asserted that the snapshots did not hold
C31_Witness ==
    /\ dp_pc = "done"
    /\ dp_core = BOOT_CORE_ID
    /\ Len(CallsOf("periph")) = 3
    /\ Len(CallsOf("local")) >= 2
    /\ dp_pending["local"] # dp_snap["local"][1]


\* the set bits of a controller's snapshot that have no handler
Missing(ctl) ==
    IF Len(dp_snap[ctl]) = 0 THEN {} ELSE {n \in dp_snap[ctl][1] : SlotOf(ctl, n) = None}

\* C32: a pending peripheral IRQ without a handler stops the dispatch with a
\* panic naming its number, before any handler of a higher number and any
\* local handler runs; a pending local IRQ 8 without a handler is logged and
\* the loop goes on; any other local IRQ without a handler panics with its
\* number; a handler that returns Err panics at the dispatch site.
C32_MissingHandler ==
    /\ \A ctl \in {"periph", "local"} :
          LET msg == IF ctl = "periph" THEN PeriphNoHandler ELSE LocalNoHandler
              fatal == IF ctl = "periph" THEN Missing(ctl) ELSE Missing(ctl) \ {GPU_IRQ}
          IN  /\ LoopOver(ctl) => fatal = {}
              /\ \A n \in 0 .. MAX_PERIPHERAL_IRQ_NUMBER :
                    dp_panic = Some([msg |-> msg, n |-> n]) =>
                       /\ n = SetMin(fatal)
                       /\ dp_pc = "panic"
                       /\ \A i \in 1 .. Len(CallsOf(ctl)) : CallsOf(ctl)[i].n < n
                       /\ ctl = "periph" => CallsOf("local") = <<>>
    /\ dp_log = IF GPU_IRQ \in Missing("local") /\ GPU_IRQ \notin bitmask
                THEN <<GPU_IRQ>> ELSE <<>>
    /\ dp_cur.res = "err" =>
          /\ dp_pc = "panic"
          /\ dp_panic = Some([msg |-> HandlerErr, n |-> dp_cur.n])
          /\ dp_calls[Len(dp_calls)] = [ctl |-> dp_cur.ctl, n |-> dp_cur.n, d |-> dp_cur.d]
    /\ dp_pc = "panic" <=> dp_panic # None

\* on core 0, after two peripheral handlers and the local handler of IRQ 1,
\* IRQ 8 without a handler was logged and the loop went on to IRQ 11, which
\* had none either
C32_Witness ==
    /\ dp_panic = Some([msg |-> LocalNoHandler, n |-> 11])
    /\ dp_log = <<GPU_IRQ>>
    /\ Len(CallsOf("periph")) >= 2
    /\ Len(CallsOf("local")) = 1


\* a peripheral handler called from the dispatch is executing
PeriphHandlerRuns == dp_pc = "handler" /\ dp_cur.ctl = "periph"

C34_PerCoreSlots ==
    [][(RegisterHandler /\ lastReg'.ctl = "local") =>
          LET c == lastReg'.core
              n == lastReg'.n
          IN  /\ lastReg'.ok <=> handler_tables[c][n] = None
              /\ lastReg'.ok => handler_tables'[c][n] = Some(lastReg'.d)
              /\ \A k \in Cores, m \in 0 .. MAX_LOCAL_IRQ_NUMBER :
                    (k # c \/ m # n) => handler_tables'[k][m] = handler_tables[k][m]]_vars


\* C35: every call of core_setup on a secondary core comes after the boot
\* core zeroed BSS and populated the translation tables, and a secondary
\* core that is past _start stays short of core_setup's end until then.
C35_SetupAfterTables ==
    /\ \A r \in setup_log : r.bss /\ r.tables
    /\ \A c \in SecCores : sc_pc[c] = "wfe" => bss_zeroed /\ tables_ready


\* the spin-table writes of one core, in order
WritesBy(c) == SelectSeq(slot_writes, LAMBDA w : w.by = c)

\* what the boot core's call writes: start2 to 0xD8 + 8 * core_id for the
\* cores 1, 2, 3, in this order
WakeWrites == [i \in 1 .. 3 |-> [by |-> BOOT_CORE_ID, addr |-> 216 + 8 * i, val |-> start2]]

C36_Safe ==
    /\ Len(WritesBy(BOOT_CORE_ID)) <= 3
    /\ WritesBy(BOOT_CORE_ID) = SubSeq(WakeWrites, 1, Len(WritesBy(BOOT_CORE_ID)))
    /\ bc_pc \in {"wake_sev", "wake_wait", "wake_done"} => WritesBy(BOOT_CORE_ID) = WakeWrites
    /\ bc_pc = "wake_done" => \A c \in SecCores : slots[c] = 0 /\ sc_pc[c] \in {"core_setup", "wfe"}
    /\ \A c \in SecCores :
          /\ WritesBy(c) \in {<<>>, <<[by |-> c, addr |-> 216 + 8 * c, val |-> 0]>>}
          /\ sc_pc[c] \in {"core_setup", "wfe"} <=> WritesBy(c) # <<>>

\* C36: wake_up_secondary_cores writes start2 into the slots of the cores 1,
\* 2, 3 (0xD8 + 8 * core_id), then issues sev, and has returned only when all
\* three slots read zero; each awakened secondary core writes zero to its own
\* slot and nothing else, once; and with every core taking its steps the call
\* returns.
C36_WakeUp == []C36_Safe /\ <>(bc_pc = "wake_done")

\* the call has returned: six writes were made, the three of the boot core
\* first, and core 3 zeroed its slot before core 1 did
C36_Witness ==
    /\ bc_pc = "wake_done"
    /\ Len(slot_writes) = 6
    /\ slot_writes[4].by = 3
    /\ slot_writes[6].by = 1


\* C37: after every handled system-timer interrupt, while no match is
\* pending, the compare value C1 lies ahead of the counter CLO by at most one
\* interval: the next tick is at most one interval away, however long the
\* handler took.
C37_NextTickNear ==
    (t_pc = "run" /\ ~m1) =>
        /\ c1 # clo
        /\ le32(sub32(c1, clo), toU32(interval))

\* C38: SystemTimer init arms C1 with CLO + interval; every handler call
\* adds interval to the compare value modulo 2^32 without failing, writes C1,
\* clears M1 and then calls timer_tick once; after k handled interrupts
\* C1 = (initial CLO + (k+1) * interval) mod 2^32.
C38_CompareValue ==
    /\ t_pc # "panic"
    /\ t_pc \in {"run", "spin"} =>
          /\ c1 = cur_val
          /\ LET k == IF t_pc = "spin" THEN t_k + 1 ELSE t_k
                 d == sub32(c1, clo0)
             IN  d.hi * HALF + d.lo = (k + 1) * interval
    /\ t_pc = "spin" => t_ops = <<"add", "C1", "CS", "timer_tick">>


\* Stack::ALIGN (process.rs:108); a push lowers sp by a multiple of it
STACK_ALIGN == 16
LiveTasks == {i \in 1 .. Len(processes) : processes[i].state # ZOMBIE}
StackRegion(t) == t.stack .. (t.stack + STACK_SIZE - 1)
FirstPush(t) == (t.context.sp - STACK_ALIGN) .. (t.context.sp - 1)

\* C39: a queued task's initial stack pointer is the top of its own 4 KiB
\* stack (base + 4096) and 16-byte aligned, the first push of its descending
\* stack lands inside that stack, and no two live tasks' stacks overlap.
C39_StackPointer ==
    \A i \in LiveTasks :
        LET t == processes[i] IN
        /\ t.context.sp = t.stack + STACK_SIZE
        /\ t.context.sp % STACK_ALIGN = 0
        /\ FirstPush(t) \subseteq StackRegion(t)
        /\ \A j \in LiveTasks \ {i} :
              StackRegion(t) \cap StackRegion(processes[j]) = {}


\* C40: when enable_fiq(n) has returned it has made exactly two register
\* writes, bit n%32 to DISABLE_1 (n <= 31) or DISABLE_2 (n >= 32) and then
\* (1<<7)|n to FIQ_CONTROL; IRQ n is not enabled as a normal IRQ and
\* FIQ_CONTROL selects n, whatever the other cores' enable and disable calls
\* for other numbers did meanwhile; and at no time do two cores hold the
\* write-only registers.
C40_EnableFiq ==
    /\ \A c \in Cores :
          fq_pc[c] = "returned" =>
              LET n == fq_int[c] IN
              /\ wo_log[c] = << <<IF n <= 31 THEN "DISABLE_1" ELSE "DISABLE_2", {n % 32}>>,
                                <<"FIQ_CONTROL", 128 + n>> >>
              /\ n \notin irq_enabled
              /\ FIQ_CONTROL % 128 = n
              /\ FIQ_CONTROL \div 128 = 1
    /\ Cardinality({c \in Cores :
                       fq_pc[c] \in {"enable_locked", "disable_locked", "fiq_locked"}}) <= 1
    /\ \A c \in Cores :
          fq_pc[c] \in {"enable_locked", "disable_locked", "fiq_locked"} => wo_regs = Some(c)

\* enable_fiq(32) has returned on one core, IRQ 32 having been enabled
\* before, while the other core enabled IRQ 31 and is about to write the
\* disable bit of IRQ 41
C40_Witness ==
    \E c \in Cores, d \in Cores :
        /\ c # d
        /\ fq_pc[c] = "returned"
        /\ fq_int[c] = 32
        /\ 31 \in irq_enabled
        /\ fq_pc[d] = "disable_locked"
        /\ fq_int[d] = USB_IRQ + 32
        /\ fq_calls[d] = MaxRegCalls

====
